---- MODULE Spec2Model ----
(***************************************************************************)
(* State-machine model of the MyShop access-control and order-processing   *)
(* core: checkout (pages/api/orders/index.js), order fetch and payment     *)
(* (pages/api/orders/[id]/index.js), the admin identity routes             *)
(* (pages/api/admin/users/[id].js) and the admin catalog index route.      *)
(*                                                                         *)
(* Every `await` of a handler is a scheduling point, so a handler is a     *)
(* sequence of actions, one per database round trip; the synchronous code  *)
(* that follows a round trip belongs to the same action.                   *)
(*                                                                         *)
(* Units.  Money is held in mills (1/1000 of a currency unit) and          *)
(* quantities and stock in halves of a unit, so that the JavaScript        *)
(* numbers the handlers accept (229.99, 229.995, a quantity of 1.5) are    *)
(* exact integers here.  Binary floating-point rounding error is not       *)
(* modelled: arithmetic is exact decimal arithmetic.                       *)
(***************************************************************************)
EXTENDS Integers, Sequences, FiniteSets, TLC

VARIABLES
    users,      \* Identity Store: id -> [isAdmin, isSuperAdmin, isDeleted]
    products,   \* Catalog: id -> [price, countInStock, isDeleted]
    orders,     \* Order collection, a sequence; an order's _id is its index
    sessions,   \* issued session tokens: [uid, isAdmin] (JWT claims)
    reqs,       \* in-flight requests: slot -> handler position and locals
    txns,       \* database transactions opened by checkout requests
    created,    \* number of sample products created by the admin index route
    now,        \* Date.now(), in hours
    audit       \* Audit Sink: the set of entries appended to the log files

vars == <<users, products, orders, sessions, reqs, txns, created, now, audit>>

----------------------------------------------------------------------------
(* Bounds of the model *)

NumRequests == 2      \* request slots (requests in flight at once)
MaxStock == 1         \* initial stock of the contested item, in whole units

ReqIds == 1..NumRequests

----------------------------------------------------------------------------
(* Units *)

Mills(n) == 1000 * n          \* n currency units, in mills
Cents(n) == 10 * n            \* n cents, in mills
Units(n) == 2 * n             \* n whole items, in halves
Floor(q) == 2 * (q \div 2)    \* Math.floor on a quantity held in halves
Abs(x) == IF x < 0 THEN -x ELSE x

\* Math.round(x * 100) / 100 for x = num/den mills, x >= 0: nearest cent,
\* ties upwards.
Round2(num, den) == 10 * ((2 * num + 10 * den) \div (20 * den))

----------------------------------------------------------------------------
(* Identifiers.  A request carries identifiers as strings; the handlers    *)
(* test them against /^[0-9a-fA-F]{24}$/.  An identifier is modelled by    *)
(* the document key it denotes, its length and whether it is all hex.      *)

ObjectId(k) == [key |-> k, len |-> 24, hex |-> TRUE]
MalformedId == [key |-> 0, len |-> 7, hex |-> FALSE]

isValidObjectId(id) == id.hex /\ id.len = 24

UserIds == {"u1", "u2", "u3"}
ProductIds == {"p1", "p2"}

----------------------------------------------------------------------------
(* The stores as they stand before any request *)

User(admin, super) == [isAdmin |-> admin, isSuperAdmin |-> super, isDeleted |-> FALSE]

\* one super-admin and two customers
InitUsers == [u \in UserIds |->
    IF u = "u1" THEN User(TRUE, TRUE) ELSE User(FALSE, FALSE)]

InitProducts == [p \in ProductIds |->
    IF p = "p1"
    THEN [price |-> Mills(100), countInStock |-> Units(MaxStock), isDeleted |-> FALSE]
    ELSE [price |-> Mills(10) + Cents(2), countInStock |-> Units(MaxStock + 1), isDeleted |-> FALSE]]

\* next-auth jwt callback: the token copies _id and isAdmin at sign-in
Token(u) == [uid |-> u, isAdmin |-> users[u].isAdmin]
InitToken(u) == [uid |-> u, isAdmin |-> InitUsers[u].isAdmin]

IdleReq == [op |-> "none", pc |-> "idle"]
NoTxn == [open |-> FALSE]

Response(status, kind) == [status |-> status, kind |-> kind]

\* the request r has taken a step; no other request has
Done(r) == reqs[r].pc = "done"

\* the response has been delivered: the slot serves the next request
Release(r) ==
    /\ reqs[r].pc = "done"
    /\ reqs' = [reqs EXCEPT ![r] = IdleReq]
    /\ UNCHANGED <<users, products, orders, sessions, txns, created, now, audit>>

----------------------------------------------------------------------------
(* Checkout: POST /api/orders  (src/unnamed/part_000)                      *)

MaxOrderItems == 50
MinQuantity == 1
MaxQuantity == 100
TaxPercent == 15
freeShippingThreshold == 200
shippingCost == 25

requiredAddressFields == {"fullName", "address", "city", "postalCode", "country"}
allowedPaymentMethods == {"PayPal", "Stripe", "CashOnDelivery"}

\* line 73: !item._id || !isValidObjectId(item._id) || !item.quantity ||
\*          item.quantity < 1 || item.quantity > 100
InvalidOrderItem(item) ==
    \/ ~isValidObjectId(item._id)
    \/ item.quantity = 0
    \/ item.quantity < Units(MinQuantity)
    \/ item.quantity > Units(MaxQuantity)

\* the lookup without the soft-delete filter
ProductFound_IgnoreDeleted(id) == id.key \in DOMAIN products

\* Product.findOne({ _id, isDeleted: { $ne: true } })
ProductFound(id) == id.key \in DOMAIN products /\ ~products[id.key].isDeleted

\* line 98: product.price * item.quantity  (price in mills, quantity in halves)
ItemTotal(price, quantity) == (price * quantity) \div 2

\* lines 101-110: the snapshot entry pushed on validatedOrderItems
ValidatedOrderItem(id, product, item) ==
    [_id |-> id.key, price |-> product.price, quantity |-> Floor(item.quantity)]

\* lines 113-116: the prepared stock update
StockUpdate(id, product, item) ==
    [productId |-> id.key, newStock |-> product.countInStock - item.quantity]

\* line 124
calculatedTaxPrice(itemsPrice) == Round2(itemsPrice * TaxPercent, 100)
\* line 125
calculatedShippingPrice(itemsPrice) ==
    IF itemsPrice >= Mills(freeShippingThreshold) THEN 0 ELSE Mills(shippingCost)
\* line 126
calculatedTotalPrice(itemsPrice) ==
    Round2(itemsPrice + calculatedTaxPrice(itemsPrice) + calculatedShippingPrice(itemsPrice), 1)

NoPayment == [set |-> FALSE]

\* lines 134-154: the order document built for the transaction
NewOrder(uid, items, itemsPrice, address, at) ==
    [ user |-> uid,
      orderItems |-> items,
      shippingAddress |-> address,
      itemsPrice |-> itemsPrice,
      taxPrice |-> calculatedTaxPrice(itemsPrice),
      shippingPrice |-> calculatedShippingPrice(itemsPrice),
      totalPrice |-> calculatedTotalPrice(itemsPrice),
      isPaid |-> FALSE,
      isDelivered |-> FALSE,
      status |-> "pending",
      createdAt |-> at,
      paymentResult |-> NoPayment ]

\* lines 9-64: session, identity re-check and structural validation
CreateOrderStart(r, s, body) ==
    /\ reqs[r].pc = "idle"
    /\ s \in sessions
    /\ reqs' = [reqs EXCEPT ![r] =
         IF s.uid \notin DOMAIN users
           THEN [op |-> "createOrder", pc |-> "done", uid |-> s.uid,
                 response |-> Response(401, "InvalidSession")]
         ELSE IF Len(body.orderItems) = 0 \/ Len(body.orderItems) > MaxOrderItems
           THEN [op |-> "createOrder", pc |-> "done", uid |-> s.uid,
                 response |-> Response(400, "ItemsRequired")]
         ELSE IF ~(requiredAddressFields \subseteq body.shippingAddress)
           THEN [op |-> "createOrder", pc |-> "done", uid |-> s.uid,
                 response |-> Response(400, "InvalidAddress")]
         ELSE IF body.paymentMethod \notin allowedPaymentMethods
           THEN [op |-> "createOrder", pc |-> "done", uid |-> s.uid,
                 response |-> Response(400, "InvalidPaymentMethod")]
         ELSE [op |-> "createOrder", pc |-> "items", uid |-> s.uid,
               orderItems |-> body.orderItems,
               shippingAddress |-> body.shippingAddress,
               paymentMethod |-> body.paymentMethod,
               i |-> 1,
               calculatedItemsPrice |-> 0,
               validatedOrderItems |-> <<>>,
               stockUpdates |-> <<>>]]
    /\ UNCHANGED <<users, products, orders, sessions, txns, created, now, audit>>

\* lines 71-117: one pass of the item loop: validate the entry, read the
\* product (outside any transaction), check stock, accumulate
CreateOrderItem(r) ==
    /\ reqs[r].op = "createOrder" /\ reqs[r].pc = "items"
    /\ LET q == reqs[r]
           item == q.orderItems[q.i]
           product == products[item._id.key]
           fail(status, kind) ==
               [op |-> "createOrder", pc |-> "done", uid |-> q.uid,
                response |-> Response(status, kind)]
       IN reqs' = [reqs EXCEPT ![r] =
            IF InvalidOrderItem(item) THEN fail(400, "InvalidItem")
            ELSE IF ~ProductFound(item._id) THEN fail(404, "ProductNotFound")
            ELSE IF product.countInStock < item.quantity THEN fail(400, "InsufficientStock")
            ELSE [q EXCEPT
                   !.calculatedItemsPrice = @ + ItemTotal(product.price, item.quantity),
                   !.validatedOrderItems = Append(@, ValidatedOrderItem(item._id, product, item)),
                   !.stockUpdates = Append(@, StockUpdate(item._id, product, item)),
                   !.i = @ + 1,
                   !.pc = IF q.i = Len(q.orderItems) THEN "save" ELSE "items"]]
    /\ UNCHANGED <<users, products, orders, sessions, txns, created, now, audit>>

\* lines 128-156: startTransaction and newOrder.save({ session }): the order
\* is written inside the transaction and is invisible until commit
CreateOrderSave(r) ==
    /\ reqs[r].op = "createOrder" /\ reqs[r].pc = "save"
    /\ LET q == reqs[r] IN
       /\ txns' = [txns EXCEPT ![r] =
            [open |-> TRUE,
             order |-> NewOrder(q.uid, q.validatedOrderItems,
                                q.calculatedItemsPrice, q.shippingAddress, now),
             writes |-> <<>>,
             stale |-> {}]]
       /\ reqs' = [reqs EXCEPT ![r] = [q EXCEPT !.pc = "update", !.i = 1]]
    /\ UNCHANGED <<users, products, orders, sessions, created, now, audit>>

\* a document another open transaction has written, or one committed to
\* since this transaction's snapshot, cannot be written: WriteConflict
WriteConflict(r, p) ==
    \/ p \in txns[r].stale
    \/ \E o \in ReqIds \ {r} :
         /\ txns[o].open
         /\ \E k \in 1..Len(txns[o].writes) : txns[o].writes[k].productId = p

\* the stock a product holds once the writes of a transaction are applied in order
RECURSIVE ApplyWrites(_, _)
ApplyWrites(prods, writes) ==
    IF writes = <<>> THEN prods
    ELSE ApplyWrites(
           IF Head(writes).productId \in DOMAIN prods
           THEN [prods EXCEPT ![Head(writes).productId].countInStock = Head(writes).newStock]
           ELSE prods,
           Tail(writes))

\* the writes made so far survive the failure, as without a transaction
abortTransaction_KeepWrites(prods, writes) == ApplyWrites(prods, writes)

\* lines 184-187: session_db.abortTransaction() discards the order insert
\* and every stock write the transaction made
abortTransaction(prods, writes) == prods

\* lines 159-165 and 184-197: one Product.findByIdAndUpdate of the loop; a
\* thrown error aborts the transaction and answers 500
CreateOrderStockUpdate(r) ==
    /\ reqs[r].op = "createOrder" /\ reqs[r].pc = "update"
    /\ LET q == reqs[r]
           update == q.stockUpdates[q.i]
       IN IF WriteConflict(r, update.productId)
          THEN /\ txns' = [txns EXCEPT ![r] = NoTxn]
               /\ products' = abortTransaction(products, txns[r].writes)
               /\ reqs' = [reqs EXCEPT ![r] =
                    [op |-> "createOrder", pc |-> "done", uid |-> q.uid,
                     response |-> Response(500, "Transient")]]
          ELSE /\ txns' = [txns EXCEPT ![r].writes = Append(@, update)]
               /\ products' = products
               /\ reqs' = [reqs EXCEPT ![r] = [q EXCEPT
                    !.i = @ + 1,
                    !.pc = IF q.i = Len(q.stockUpdates) THEN "commit" ELSE "update"]]
    /\ UNCHANGED <<users, orders, sessions, created, now, audit>>

WrittenProducts(writes) == {writes[k].productId : k \in 1..Len(writes)}

\* lines 167-182: commitTransaction publishes the order and the stock writes
CreateOrderCommit(r) ==
    /\ reqs[r].op = "createOrder" /\ reqs[r].pc = "commit"
    /\ LET q == reqs[r]
           t == txns[r]
       IN /\ orders' = Append(orders, t.order)
          /\ products' = ApplyWrites(products, t.writes)
          /\ txns' = [o \in ReqIds |->
               IF o = r THEN NoTxn
               ELSE IF txns[o].open
                    THEN [txns[o] EXCEPT !.stale = @ \cup WrittenProducts(t.writes)]
                    ELSE txns[o]]
          /\ reqs' = [reqs EXCEPT ![r] =
               [op |-> "createOrder", pc |-> "done", uid |-> q.uid,
                response |-> [status |-> 201, kind |-> "Created",
                              orderId |-> Len(orders) + 1,
                              totalPrice |-> t.order.totalPrice]]]
    /\ UNCHANGED <<users, sessions, created, now, audit>>

\* request bodies the checkout specifications draw from
Item(k, q) == [_id |-> ObjectId(k), quantity |-> q]
FullAddress == requiredAddressFields
Body(items) == [orderItems |-> items, shippingAddress |-> FullAddress, paymentMethod |-> "PayPal"]

CheckoutBodies ==
    { Body(<<Item("p1", Units(1))>>),
      Body(<<Item("p2", Units(1) + 1)>>),        \* a quantity of 1.5
      Body(<<Item("p1", Units(1)), Item("p2", Units(2))>>) }

CheckoutCallers == {InitToken("u2"), InitToken("u3")}

InitCheckout ==
    /\ users = InitUsers
    /\ products = InitProducts
    /\ orders = <<>>
    /\ sessions = CheckoutCallers
    /\ reqs = [r \in ReqIds |-> IdleReq]
    /\ txns = [r \in ReqIds |-> NoTxn]
    /\ created = 0
    /\ now = 0
    /\ audit = {}

NextCheckout ==
    \E r \in ReqIds :
        \/ \E s \in sessions, body \in CheckoutBodies : CreateOrderStart(r, s, body)
        \/ CreateOrderItem(r)
        \/ CreateOrderSave(r)
        \/ CreateOrderStockUpdate(r)
        \/ CreateOrderCommit(r)

SpecCheckout == InitCheckout /\ [][NextCheckout]_vars

\* lines 184-197: any awaited step inside the transaction (the order insert,
\* a stock update, the commit) throws: the transaction is aborted and the
\* outer catch answers 500
CreateOrderFault(r) ==
    /\ reqs[r].op = "createOrder" /\ reqs[r].pc \in {"update", "commit"}
    /\ txns[r].open
    /\ txns' = [txns EXCEPT ![r] = NoTxn]
    /\ products' = abortTransaction(products, txns[r].writes)
    /\ reqs' = [reqs EXCEPT ![r] =
         [op |-> "createOrder", pc |-> "done", uid |-> reqs[r].uid,
          response |-> Response(500, "Transient")]]
    /\ UNCHANGED <<users, orders, sessions, created, now, audit>>

\* checkouts whose database steps may fail
NextCheckoutFault ==
    \/ NextCheckout
    \/ \E r \in ReqIds : CreateOrderFault(r)

SpecCheckoutFault == InitCheckout /\ [][NextCheckoutFault]_vars

\* checkouts served one at a time, with whole quantities and an item list
\* that names one item twice
RepeatedItemBodies ==
    { Body(<<Item("p1", Units(1))>>),
      Body(<<Item("p1", Units(1)), Item("p2", Units(1))>>),
      Body(<<Item("p2", Units(1)), Item("p2", Units(1))>>) }

NextCheckoutSeq ==
    \/ \E s \in sessions, body \in RepeatedItemBodies : CreateOrderStart(1, s, body)
    \/ CreateOrderItem(1)
    \/ CreateOrderSave(1)
    \/ CreateOrderStockUpdate(1)
    \/ CreateOrderCommit(1)
    \/ Release(1)

SpecCheckoutSeq == InitCheckout /\ [][NextCheckoutSeq]_vars

\* checkout bodies that fail one check each, next to one that passes
BodyWith(items, address, method) ==
    [orderItems |-> items, shippingAddress |-> address, paymentMethod |-> method]

RejectedBodies ==
    { Body(<<>>),
      Body([k \in 1..(MaxOrderItems + 1) |-> Item("p1", Units(1))]),
      Body(<<Item("p1", 0)>>),
      Body(<<Item("p1", 1)>>),                          \* a quantity of 0.5
      Body(<<Item("p1", Units(MaxQuantity + 1))>>),
      Body(<<Item("p1", Units(1)), Item("p1", Units(MaxQuantity) + 1)>>),
      BodyWith(<<Item("p1", Units(1))>>, FullAddress \ {"city"}, "PayPal"),
      BodyWith(<<Item("p1", Units(1))>>, FullAddress, "Bitcoin"),
      Body(<<Item("p9", Units(1))>>),
      Body(<<Item("p2", Units(1))>>),
      Body(<<Item("p1", Units(MaxStock + 1))>>) }

\* the catalog with p2 soft-deleted
InitReject ==
    /\ users = InitUsers
    /\ products = [InitProducts EXCEPT !["p2"].isDeleted = TRUE]
    /\ orders = <<>>
    /\ sessions = CheckoutCallers
    /\ reqs = [r \in ReqIds |-> IdleReq]
    /\ txns = [r \in ReqIds |-> NoTxn]
    /\ created = 0
    /\ now = 0
    /\ audit = {}

NextReject ==
    \E r \in ReqIds :
        \/ \E s \in sessions, body \in RejectedBodies \cup {Body(<<Item("p1", Units(1))>>)} :
               CreateOrderStart(r, s, body)
        \/ CreateOrderItem(r)
        \/ CreateOrderSave(r)
        \/ CreateOrderStockUpdate(r)
        \/ CreateOrderCommit(r)

SpecReject == InitReject /\ [][NextReject]_vars

----------------------------------------------------------------------------
(* Claims about checkout *)

RECURSIVE SumSeq(_)
SumSeq(ns) == IF ns = <<>> THEN 0 ELSE Head(ns) + SumSeq(Tail(ns))

\* quantity of product p recorded in the item snapshot of order o, in halves
OrderedQty(o, p) ==
    SumSeq([k \in 1..Len(o.orderItems) |->
        IF o.orderItems[k]._id = p THEN o.orderItems[k].quantity ELSE 0])

\* quantity of product p recorded in all orders, in halves
SoldQty(p) == SumSeq([n \in 1..Len(orders) |-> OrderedQty(orders[n], p)])

DistinctItems(o) ==
    \A j, k \in 1..Len(o.orderItems) :
        o.orderItems[j]._id = o.orderItems[k]._id => j = k

\* C1: under any interleaving of create-order requests competing for an
\* item, its stock never becomes negative and the orders created never hold
\* more of the item than the supply allowed (orders naming an item once).
C1_NoOversell ==
    (\A n \in 1..Len(orders) : DistinctItems(orders[n])) =>
        \A p \in ProductIds :
            /\ products[p].countInStock >= 0
            /\ SoldQty(p) <= InitProducts[p].countInStock

\* sum over the snapshot of price x quantity, in mills
SnapshotPrice(o) ==
    SumSeq([k \in 1..Len(o.orderItems) |->
        ItemTotal(o.orderItems[k].price, o.orderItems[k].quantity)])

\* C6: every stored order has itemsPrice = sum over its snapshot of
\* server price x snapshot quantity, taxPrice = round2(itemsPrice x 0.15),
\* shippingPrice = 0 from 200 upwards and 25 below, and
\* totalPrice = round2(itemsPrice + taxPrice + shippingPrice).
C6_ServerPricing ==
    \A n \in 1..Len(orders) :
        LET o == orders[n] IN
        /\ o.itemsPrice = SnapshotPrice(o)
        /\ o.taxPrice = Round2(o.itemsPrice * 15, 100)
        /\ o.shippingPrice = (IF o.itemsPrice >= Mills(200) THEN 0 ELSE Mills(25))
        /\ o.totalPrice = Round2(o.itemsPrice + o.taxPrice + o.shippingPrice, 1)

\* C11: when a checkout fails after its transaction has opened, the step
\* that ends the transaction leaves the orders and every item's stock as
\* they were, and the caller is answered 500.
C11_TransactionAbortsWhole ==
    [][\A r \in ReqIds :
        (txns[r].open /\ ~txns'[r].open /\ reqs'[r].response.status # 201)
        => /\ orders' = orders
           /\ products' = products
           /\ reqs'[r].response.status = 500]_vars

\* a checkout was answered 500 while no order exists and the stock is whole
C11_Witness ==
    \E r \in ReqIds :
        /\ reqs[r].op = "createOrder" /\ reqs[r].pc = "done"
        /\ reqs[r].response = Response(500, "Transient")
        /\ orders = <<>>
        /\ products = InitProducts

\* C12: the commit of a successful checkout lowers each item's stock by the
\* total quantity of that item recorded in the created order, also when the
\* item list names the item in more than one entry.
C12_StockMatchesOrder ==
    [][\A r \in ReqIds :
        (/\ reqs[r].op = "createOrder" /\ reqs[r].pc = "commit"
         /\ reqs'[r].pc = "done" /\ reqs'[r].response.status = 201)
        => \A p \in ProductIds :
             products'[p].countInStock =
                 products[p].countInStock - OrderedQty(orders'[Len(orders')], p)]_vars

----------------------------------------------------------------------------
(* Orders by id: GET /api/orders/[id] and PUT /api/orders/[id]/pay        *)
(* (src/pages/api/orders/[id]/index.js)                                    *)

twentyFourHours == 24
amountTolerance == 1          \* 0.01, in cents
MinPaymentIdLength == 10
MaxPaymentIdLength == 100

allowedStatuses == {"COMPLETED", "APPROVED", "CAPTURED"}

\* a payment transaction id as the request carries it: its text once
\* trimmed, and its length as sent
PaymentId(text, len) == [text |-> text, len |-> len]
Trim(id) == id.text

\* /^[^\s@]+@[^\s@]+\.[^\s@]+$/ on the sample addresses
emailRegexTest(e) == e \in {"payer@example.com"}

\* paymentData.amount: absent, a number (in mills) or text that is no number
NoAmount == [kind |-> "undefined"]
Amount(m) == [kind |-> "number", value |-> m]
TextAmount == [kind |-> "text"]

\* parseFloat: NaN (here: no value) unless the amount is a number
isNaN(amount) == amount.kind # "number"

\* the amount check with Math.abs left out: an underpayment passes
AmountMismatch_NoAbs(amount, expectedAmount) ==
    /\ amount.kind # "undefined"
    /\ \/ isNaN(amount)
       \/ amount.value - expectedAmount > Cents(amountTolerance)

\* lines 305-311: the amount check
AmountMismatch(amount, expectedAmount) ==
    /\ amount.kind # "undefined"
    /\ \/ isNaN(amount)
       \/ Abs(amount.value - expectedAmount) > Cents(amountTolerance)

\* lines 278-318
validatePaymentData(paymentData, expectedAmount) ==
    LET idBad == \/ paymentData.id.len = 0
                 \/ paymentData.id.len < MinPaymentIdLength
                 \/ paymentData.id.len > MaxPaymentIdLength
        statusBad == paymentData.status \notin allowedStatuses
        emailBad == ~emailRegexTest(paymentData.email_address)
        amountBad == AmountMismatch(paymentData.amount, expectedAmount)
        errors == (IF idBad THEN <<"Invalid payment transaction ID">> ELSE <<>>)
               \o (IF statusBad THEN <<"Invalid payment status">> ELSE <<>>)
               \o (IF emailBad THEN <<"Invalid email address">> ELSE <<>>)
               \o (IF amountBad THEN <<"Payment amount mismatch">> ELSE <<>>)
    IN [isValid |-> Len(errors) = 0,
        errors |-> errors,
        data |-> [id |-> IF idBad THEN "" ELSE Trim(paymentData.id),
                  status |-> paymentData.status,
                  email_address |-> paymentData.email_address]]

\* Order.findOne({ _id })
OrderExists(id) == id.key \in 1..Len(orders)

\* the ownership query with an admin override, as on the fetch route
OwnOrderFound_AdminOverride(id, uid) ==
    OrderExists(id) /\ (orders[id.key].user = uid \/ users[uid].isAdmin)

\* lines 174-177: Order.findOne({ _id, user: session.user._id })
OwnOrderFound(id, uid) == OrderExists(id) /\ orders[id.key].user = uid

\* lines 147-171: method, session, id shape, identity re-check
PayStart(r, s, id, body) ==
    /\ reqs[r].pc = "idle"
    /\ s \in sessions
    /\ reqs' = [reqs EXCEPT ![r] =
         IF ~isValidObjectId(id)
           THEN [op |-> "pay", pc |-> "done", uid |-> s.uid, id |-> id, body |-> body,
                 response |-> Response(400, "InvalidId")]
         ELSE IF s.uid \notin DOMAIN users
           THEN [op |-> "pay", pc |-> "done", uid |-> s.uid, id |-> id, body |-> body,
                 response |-> Response(401, "InvalidSession")]
         ELSE [op |-> "pay", pc |-> "load", uid |-> s.uid, id |-> id, body |-> body]]
    /\ UNCHANGED <<users, products, orders, sessions, txns, created, now, audit>>

\* the order-state checks without the expiry window
OrderStateRejection_NoExpiry(order) ==
    IF order.isPaid THEN "AlreadyPaid"
    ELSE IF order.status = "cancelled" THEN "Cancelled"
    ELSE "none"

\* lines 188-206: already paid, cancelled, older than 24 hours and unpaid;
\* the first that applies names the rejection
OrderStateRejection(order) ==
    IF order.isPaid THEN "AlreadyPaid"
    ELSE IF order.status = "cancelled" THEN "Cancelled"
    ELSE IF now - order.createdAt > twentyFourHours /\ ~order.isPaid THEN "Expired"
    ELSE "none"

\* lines 173-216: the ownership query, the order-state checks and the
\* validation of the payment payload
PayLoadOrder(r) ==
    /\ reqs[r].op = "pay" /\ reqs[r].pc = "load"
    /\ LET q == reqs[r]
           fail(status, kind) ==
               [op |-> "pay", pc |-> "done", uid |-> q.uid, id |-> q.id, body |-> q.body,
                response |-> Response(status, kind)]
       IN reqs' = [reqs EXCEPT ![r] =
            IF ~OwnOrderFound(q.id, q.uid)
              THEN fail(404, "NotFound")
            ELSE LET order == orders[q.id.key]
                     paymentValidation == validatePaymentData(q.body, order.totalPrice)
                 IN IF OrderStateRejection(order) # "none"
                      THEN fail(400, OrderStateRejection(order))
                    ELSE IF ~paymentValidation.isValid
                      THEN [op |-> "pay", pc |-> "done", uid |-> q.uid, id |-> q.id,
                            body |-> q.body,
                            response |-> [status |-> 400, kind |-> "ValidationError",
                                          errors |-> paymentValidation.errors]]
                    ELSE [op |-> "pay", pc |-> "dup", uid |-> q.uid, id |-> q.id,
                          body |-> q.body,
                          order |-> order, data |-> paymentValidation.data]]
    /\ UNCHANGED <<users, products, orders, sessions, txns, created, now, audit>>

\* Order.findOne({ 'paymentResult.id': id, _id: { $ne: self } })
ExistingPayment(id, self) ==
    \E n \in 1..Len(orders) :
        n # self /\ orders[n].paymentResult.set /\ orders[n].paymentResult.id = id

\* lines 218-233: the scan for a prior use of the transaction id
PayDuplicateCheck(r) ==
    /\ reqs[r].op = "pay" /\ reqs[r].pc = "dup"
    /\ LET q == reqs[r] IN
       reqs' = [reqs EXCEPT ![r] =
            IF ExistingPayment(q.data.id, q.id.key)
            THEN [op |-> "pay", pc |-> "done", uid |-> q.uid, id |-> q.id, body |-> q.body,
                  response |-> Response(400, "DuplicatePayment")]
            ELSE [q EXCEPT !.pc = "save"]]
    /\ UNCHANGED <<users, products, orders, sessions, txns, created, now, audit>>

\* the payment record with no amount taken from the order
PaymentResult_NoAmount(data, order) ==
    [set |-> TRUE, id |-> data.id, status |-> data.status,
     email_address |-> data.email_address, amount |-> 0]

\* lines 237-245: the payment record; its amount is the order's totalPrice
PaymentResult(data, order) ==
    [set |-> TRUE, id |-> data.id, status |-> data.status,
     email_address |-> data.email_address, amount |-> order.totalPrice]

\* lines 235-264: order.save() writes the paths the handler assigned
PaySave(r) ==
    /\ reqs[r].op = "pay" /\ reqs[r].pc = "save"
    /\ LET q == reqs[r] IN
       /\ orders' = [orders EXCEPT ![q.id.key] =
            [isPaid |-> TRUE,
             paidAt |-> now,
             paymentResult |-> PaymentResult(q.data, q.order),
             status |-> "paid"] @@ @]
       /\ reqs' = [reqs EXCEPT ![r] =
            [op |-> "pay", pc |-> "done", uid |-> q.uid, id |-> q.id, body |-> q.body,
             response |-> [status |-> 200, kind |-> "Paid",
                           orderId |-> q.id.key,
                           totalPaid |-> q.order.totalPrice,
                           paymentId |-> q.data.id]]]
    /\ UNCHANGED <<users, products, sessions, txns, created, now, audit>>

\* lines 8-49: method, session, id shape, identity re-check; the query is
\* chosen from the isAdmin flag just read
GetOrderStart(r, s, id) ==
    /\ reqs[r].pc = "idle"
    /\ s \in sessions
    /\ reqs' = [reqs EXCEPT ![r] =
         IF ~isValidObjectId(id)
           THEN [op |-> "getOrder", pc |-> "done", uid |-> s.uid, id |-> id,
                 response |-> Response(400, "InvalidId")]
         ELSE IF s.uid \notin DOMAIN users
           THEN [op |-> "getOrder", pc |-> "done", uid |-> s.uid, id |-> id,
                 response |-> Response(401, "InvalidSession")]
         ELSE [op |-> "getOrder", pc |-> "find", uid |-> s.uid, id |-> id,
               isAdmin |-> users[s.uid].isAdmin]]
    /\ UNCHANGED <<users, products, orders, sessions, txns, created, now, audit>>

\* lines 95-133
sanitizeOrderResponse(order, id, isAdmin) ==
    LET baseOrder == [_id |-> id,
                      orderItems |-> order.orderItems,
                      shippingAddress |-> order.shippingAddress,
                      itemsPrice |-> order.itemsPrice,
                      taxPrice |-> order.taxPrice,
                      shippingPrice |-> order.shippingPrice,
                      totalPrice |-> order.totalPrice,
                      isPaid |-> order.isPaid,
                      isDelivered |-> order.isDelivered,
                      status |-> order.status,
                      createdAt |-> order.createdAt]
        withPaidAt == IF order.isPaid
                      THEN baseOrder @@ [paidAt |-> order.paidAt] ELSE baseOrder
    IN IF isAdmin
       THEN withPaidAt @@ [user |-> [_id |-> order.user],
                           paymentResult |-> order.paymentResult]
       ELSE withPaidAt

\* the query without the owner filter
OrderQueryFound_AnyOwner(id, uid, isAdmin) == OrderExists(id)

\* lines 34-51: Order.findOne(orderQuery): by _id for an admin, by _id and
\* owner for anyone else
OrderQueryFound(id, uid, isAdmin) ==
    OrderExists(id) /\ (isAdmin \/ orders[id.key].user = uid)

\* lines 51-81: the query, the masked 404, the second ownership check
GetOrderFind(r) ==
    /\ reqs[r].op = "getOrder" /\ reqs[r].pc = "find"
    /\ LET q == reqs[r]
           found == OrderQueryFound(q.id, q.uid, q.isAdmin)
           reply(resp) == [op |-> "getOrder", pc |-> "done", uid |-> q.uid,
                           id |-> q.id, isAdmin |-> q.isAdmin, response |-> resp]
       IN reqs' = [reqs EXCEPT ![r] =
            IF ~found THEN reply(Response(404, "NotFound"))
            ELSE IF ~q.isAdmin /\ orders[q.id.key].user # q.uid
              THEN reply(Response(403, "Forbidden"))
            ELSE reply([status |-> 200, kind |-> "Order",
                        order |-> sanitizeOrderResponse(orders[q.id.key], q.id.key, q.isAdmin)])]
    /\ UNCHANGED <<users, products, orders, sessions, txns, created, now, audit>>

\* time passes
Times == {0, 1, 24, 25}
Tick ==
    /\ \E t \in Times : t > now /\ now' = t
    /\ UNCHANGED <<users, products, orders, sessions, reqs, txns, created, audit>>

\* the order a checkout of one catalog item leaves behind
OrderOf(uid, pid, quantity) ==
    NewOrder(uid,
             <<ValidatedOrderItem(ObjectId(pid), InitProducts[pid], Item(pid, quantity))>>,
             ItemTotal(InitProducts[pid].price, quantity),
             FullAddress, 0)

\* two pending orders of customer u3: 2 x 100.00 (total 230.00) and 1 x 10.02
InitOrders == <<OrderOf("u3", "p1", Units(2)), OrderOf("u3", "p2", Units(1))>>

PayBody(text, amount) ==
    [id |-> PaymentId(text, 12), status |-> "COMPLETED",
     email_address |-> "payer@example.com", amount |-> amount]

PayBodies ==
    { PayBody("TXN-A", NoAmount),
      PayBody("TXN-A", Amount(Mills(230))),
      PayBody("TXN-A", Amount(Mills(230) - Cents(1))),
      PayBody("TXN-A", Amount(Mills(230) - Cents(1) - 5)),
      PayBody("TXN-A", TextAmount) }

OrderCallers == {InitToken("u1"), InitToken("u2"), InitToken("u3")}
OrderIdSamples == {ObjectId(1), ObjectId(2)}

InitPay ==
    /\ users = InitUsers
    /\ products = InitProducts
    /\ orders = InitOrders
    /\ sessions = OrderCallers
    /\ reqs = [r \in ReqIds |-> IdleReq]
    /\ txns = [r \in ReqIds |-> NoTxn]
    /\ created = 0
    /\ now = 0
    /\ audit = {}

NextPay ==
    \E r \in ReqIds :
        \/ \E s \in sessions, id \in OrderIdSamples, body \in PayBodies : PayStart(r, s, id, body)
        \/ PayLoadOrder(r)
        \/ PayDuplicateCheck(r)
        \/ PaySave(r)

\* fetches interleaved with settlements; a slot is reused once answered
NextFetch ==
    \E r \in ReqIds :
        \/ \E s \in sessions, id \in OrderIdSamples : GetOrderStart(r, s, id)
        \/ GetOrderFind(r)
        \/ \E s \in sessions, id \in OrderIdSamples : PayStart(r, s, id, PayBody("TXN-A", NoAmount))
        \/ PayLoadOrder(r)
        \/ PayDuplicateCheck(r)
        \/ PaySave(r)
        \/ Release(r)

SpecFetch == InitPay /\ [][NextFetch]_vars

SpecPay == InitPay /\ [][NextPay]_vars

\* a pending order of u3 and one whose status is cancelled
StateOrders ==
    <<OrderOf("u3", "p1", Units(2)),
      [OrderOf("u3", "p2", Units(1)) EXCEPT !.status = "cancelled"]>>

InitPayState ==
    /\ users = InitUsers
    /\ products = InitProducts
    /\ orders = StateOrders
    /\ sessions = OrderCallers
    /\ reqs = [r \in ReqIds |-> IdleReq]
    /\ txns = [r \in ReqIds |-> NoTxn]
    /\ created = 0
    /\ now = 0
    /\ audit = {}

StatePayBodies == {PayBody("TXN-A", NoAmount), PayBody("TXN-B", Amount(Mills(1)))}

\* settlements by the owner while time passes
NextPayState ==
    \/ \E r \in ReqIds :
        \/ \E id \in OrderIdSamples, body \in StatePayBodies :
               PayStart(r, InitToken("u3"), id, body)
        \/ PayLoadOrder(r)
        \/ PayDuplicateCheck(r)
        \/ PaySave(r)
    \/ Tick

SpecPayState == InitPayState /\ [][NextPayState]_vars

----------------------------------------------------------------------------
(* Admin identity routes: DELETE and PUT /api/admin/users/[id]             *)
(* (src/unnamed/part_002, lines 1-267).  The name and email branches of    *)
(* the update carry no role data and are not modelled.                     *)

\* a body field that may be absent: undefined, or a boolean
\* val is the value the schema's Boolean cast stores for the field
Undefined == [def |-> FALSE, val |-> FALSE, type |-> "undefined"]
Bool(b) == [def |-> TRUE, val |-> b, type |-> "boolean"]
\* the strings "true" and "false", which the cast turns into booleans
Text(b) == [def |-> TRUE, val |-> b, type |-> "string"]
IsFalse(x) == x.type = "boolean" /\ ~x.val          \* x === false

\* any actor may change role flags
RoleChangeDenied_NoCheck(body, requestingAdmin) == FALSE

\* lines 170-176: (isAdmin !== undefined || isSuperAdmin !== undefined)
\*                && !requestingAdmin.isSuperAdmin
RoleChangeDenied(body, requestingAdmin) ==
    (body.isAdmin.def \/ body.isSuperAdmin.def) /\ ~requestingAdmin.isSuperAdmin

\* User.countDocuments({ isSuperAdmin: true, isDeleted: { $ne: true } })
superAdminCount ==
    Cardinality({u \in DOMAIN users : users[u].isSuperAdmin /\ ~users[u].isDeleted})

\* the count with the delivery test inverted: no undelivered order counts
activeOrders_Delivered(uid) ==
    Cardinality({n \in 1..Len(orders) :
        orders[n].user = uid /\ orders[n].isPaid /\ orders[n].isDelivered})

\* Order.countDocuments({ user, isPaid: true, isDelivered: false })
activeOrders(uid) ==
    Cardinality({n \in 1..Len(orders) :
        orders[n].user = uid /\ orders[n].isPaid /\ ~orders[n].isDelivered})

\* lines 8-44: session, id shape, and the admin re-check against the store
AdminUserStart(r, s, method, id, body) ==
    /\ reqs[r].pc = "idle"
    /\ s \in sessions
    /\ LET reply(status, kind) ==
               [op |-> "adminUser", pc |-> "done", uid |-> s.uid, method |-> method,
                id |-> id, body |-> body, response |-> Response(status, kind)]
       IN reqs' = [reqs EXCEPT ![r] =
            IF ~isValidObjectId(id) THEN reply(400, "InvalidId")
            ELSE IF s.uid \notin DOMAIN users \/ ~users[s.uid].isAdmin
              THEN reply(403, "Forbidden")
            ELSE [op |-> "adminUser", pc |-> "target", uid |-> s.uid, method |-> method,
                  id |-> id, body |-> body,
                  requestingAdmin |-> [_id |-> s.uid,
                                       isAdmin |-> users[s.uid].isAdmin,
                                       isSuperAdmin |-> users[s.uid].isSuperAdmin]]]
    /\ UNCHANGED <<users, products, orders, sessions, txns, created, now, audit>>

\* lines 76-117 (DELETE) and 161-197 (PUT): the target is read and the
\* role-hierarchy checks that need no further read are made
AdminUserTarget(r) ==
    /\ reqs[r].op = "adminUser" /\ reqs[r].pc = "target"
    /\ LET q == reqs[r]
           reply(status, kind) ==
               [op |-> "adminUser", pc |-> "done", uid |-> q.uid, method |-> q.method,
                id |-> q.id, body |-> q.body, response |-> Response(status, kind)]
           goto(pc) == [q EXCEPT !.pc = pc] @@ [targetUser |-> users[q.id.key]]
       IN reqs' = [reqs EXCEPT ![r] =
            IF q.id.key \notin DOMAIN users \/ users[q.id.key].isDeleted
              THEN reply(404, "NotFound")
            ELSE LET targetUser == users[q.id.key] IN
              IF q.method = "DELETE"
              THEN IF targetUser.isAdmin
                   THEN IF ~q.requestingAdmin.isSuperAdmin THEN reply(403, "Forbidden")
                        ELSE IF q.id.key = q.requestingAdmin._id THEN reply(400, "SelfDelete")
                        ELSE IF targetUser.isSuperAdmin THEN goto("count")
                        ELSE goto("orders")
                   ELSE goto("orders")
              ELSE IF RoleChangeDenied(q.body, q.requestingAdmin)
                     THEN reply(403, "Forbidden")
                   ELSE IF q.id.key = q.requestingAdmin._id
                           /\ (IsFalse(q.body.isAdmin) \/ IsFalse(q.body.isSuperAdmin))
                     THEN reply(400, "SelfDemote")
                   ELSE IF targetUser.isSuperAdmin /\ IsFalse(q.body.isSuperAdmin)
                     THEN goto("count")
                   ELSE goto("save")]
    /\ UNCHANGED <<users, products, orders, sessions, txns, created, now, audit>>

\* lines 105-116 and 189-197: the count of non-deleted super-admins
AdminUserCount(r) ==
    /\ reqs[r].op = "adminUser" /\ reqs[r].pc = "count"
    /\ LET q == reqs[r] IN
       reqs' = [reqs EXCEPT ![r] =
            IF superAdminCount <= 1
            THEN [op |-> "adminUser", pc |-> "done", uid |-> q.uid, method |-> q.method,
                  id |-> q.id, body |-> q.body, response |-> Response(400, "LastSuperAdmin")]
            ELSE [q EXCEPT !.pc = IF q.method = "DELETE" THEN "orders" ELSE "save"]]
    /\ UNCHANGED <<users, products, orders, sessions, txns, created, now, audit>>

\* lines 119-131: the active-order check of a delete
AdminUserOrders(r) ==
    /\ reqs[r].op = "adminUser" /\ reqs[r].pc = "orders"
    /\ LET q == reqs[r] IN
       reqs' = [reqs EXCEPT ![r] =
            IF activeOrders(q.id.key) > 0
            THEN [op |-> "adminUser", pc |-> "done", uid |-> q.uid, method |-> q.method,
                  id |-> q.id, body |-> q.body, response |-> Response(400, "ActiveOrders")]
            ELSE [q EXCEPT !.pc = "save"]]
    /\ UNCHANGED <<users, products, orders, sessions, txns, created, now, audit>>

\* targetUser.save(): only the paths whose value the handler changed are written
Assigned(field, snapshot, current) ==
    IF field.def /\ field.val # snapshot THEN field.val ELSE current

\* lines 139-151 (soft delete) and 229-254 (role flags applied)
AdminUserSave(r) ==
    /\ reqs[r].op = "adminUser" /\ reqs[r].pc = "save"
    /\ LET q == reqs[r]
           t == q.id.key
       IN /\ users' = [users EXCEPT ![t] =
               IF q.method = "DELETE"
               THEN [@ EXCEPT !.isDeleted = TRUE]
               ELSE [@ EXCEPT
                      !.isAdmin = Assigned(q.body.isAdmin, q.targetUser.isAdmin, @),
                      !.isSuperAdmin = Assigned(q.body.isSuperAdmin, q.targetUser.isSuperAdmin, @)]]
          /\ reqs' = [reqs EXCEPT ![r] =
               [op |-> "adminUser", pc |-> "done", uid |-> q.uid, method |-> q.method,
                id |-> q.id, body |-> q.body,
                response |-> Response(200, IF q.method = "DELETE" THEN "Deleted" ELSE "Updated")]]
    /\ UNCHANGED <<products, orders, sessions, txns, created, now, audit>>

\* two super-admins and a customer
TwoSuperAdmins == [u \in UserIds |->
    IF u \in {"u1", "u2"} THEN User(TRUE, TRUE) ELSE User(FALSE, FALSE)]

UpdateBody(isAdmin, isSuperAdmin) == [isAdmin |-> isAdmin, isSuperAdmin |-> isSuperAdmin]
NoBody == UpdateBody(Undefined, Undefined)

UpdateBodies ==
    { UpdateBody(Bool(FALSE), Undefined),
      UpdateBody(Undefined, Bool(FALSE)),
      UpdateBody(Bool(TRUE), Undefined) }

InitAdmin ==
    /\ users = TwoSuperAdmins
    /\ products = InitProducts
    /\ orders = InitOrders
    /\ sessions = {[uid |-> u, isAdmin |-> TwoSuperAdmins[u].isAdmin] : u \in UserIds}
    /\ reqs = [r \in ReqIds |-> IdleReq]
    /\ txns = [r \in ReqIds |-> NoTxn]
    /\ created = 0
    /\ now = 0
    /\ audit = {}

AdminUserRequest(r) ==
    \/ \E s \in sessions, u \in UserIds : AdminUserStart(r, s, "DELETE", ObjectId(u), NoBody)
    \/ \E s \in sessions, u \in UserIds, body \in UpdateBodies :
           AdminUserStart(r, s, "PUT", ObjectId(u), body)
    \/ AdminUserTarget(r)
    \/ AdminUserCount(r)
    \/ AdminUserOrders(r)
    \/ AdminUserSave(r)

\* requests interleave at every database round trip
NextAdmin == \E r \in ReqIds : AdminUserRequest(r)
SpecAdmin == InitAdmin /\ [][NextAdmin]_vars

\* requests are served one at a time, each after the previous one has answered
NextAdminSeq == AdminUserRequest(1) \/ Release(1)
SpecAdminSeq == InitAdmin /\ [][NextAdminSeq]_vars

\* updates whose isAdmin is the boolean false or the string "false"
SelfUpdateBodies ==
    { UpdateBody(Bool(FALSE), Undefined),
      UpdateBody(Undefined, Bool(FALSE)),
      UpdateBody(Text(FALSE), Undefined) }

\* admin identity requests served one at a time, bodies not all boolean
NextAdminSelf ==
    \/ \E s \in sessions, u \in UserIds : AdminUserStart(1, s, "DELETE", ObjectId(u), NoBody)
    \/ \E s \in sessions, u \in UserIds, body \in SelfUpdateBodies :
           AdminUserStart(1, s, "PUT", ObjectId(u), body)
    \/ AdminUserTarget(1)
    \/ AdminUserCount(1)
    \/ AdminUserOrders(1)
    \/ AdminUserSave(1)
    \/ Release(1)

SpecAdminSelf == InitAdmin /\ [][NextAdminSelf]_vars

\* deletes of identities interleaved with the settlement of their orders
NextDelete ==
    \E r \in ReqIds :
        \/ \E s \in sessions, u \in {"u2", "u3"} :
               AdminUserStart(r, s, "DELETE", ObjectId(u), NoBody)
        \/ AdminUserTarget(r)
        \/ AdminUserCount(r)
        \/ AdminUserOrders(r)
        \/ AdminUserSave(r)
        \/ \E id \in OrderIdSamples :
               PayStart(r, [uid |-> "u3", isAdmin |-> FALSE], id, PayBody("TXN-A", NoAmount))
        \/ PayLoadOrder(r)
        \/ PayDuplicateCheck(r)
        \/ PaySave(r)

SpecDelete == InitAdmin /\ [][NextDelete]_vars

----------------------------------------------------------------------------
(* Signup and profile update                                               *)
(* (src/pages/api/auth/signup.js, src/pages/api/auth/update.js lines 48-123) *)

\* an identity with the profile field the two routes write
NamedUser(admin, super, name) == User(admin, super) @@ [name |-> name]

\* signup.js lines 7-44: only name, email and password are taken from the
\* body; the email (here: the identity it will name) must be unused
SignupStart(r, u, body) ==
    /\ reqs[r].pc = "idle"
    /\ reqs' = [reqs EXCEPT ![r] =
         IF body.name = ""
           THEN [op |-> "signup", pc |-> "done", uid |-> u,
                 response |-> Response(400, "InvalidName")]
         ELSE IF u \in DOMAIN users
           THEN [op |-> "signup", pc |-> "done", uid |-> u,
                 response |-> Response(409, "UserExists")]
         ELSE [op |-> "signup", pc |-> "save", uid |-> u, name |-> body.name]]
    /\ UNCHANGED <<users, products, orders, sessions, txns, created, now, audit>>

\* signup.js lines 46-77: the identity is created with isAdmin false; the
\* unique index on email turns a lost race into a 500
SignupSave(r) ==
    /\ reqs[r].op = "signup" /\ reqs[r].pc = "save"
    /\ LET q == reqs[r] IN
       IF q.uid \in DOMAIN users
       THEN /\ users' = users
            /\ reqs' = [reqs EXCEPT ![r] =
                 [op |-> "signup", pc |-> "done", uid |-> q.uid,
                  response |-> Response(500, "InternalError")]]
       ELSE /\ users' = users @@ (q.uid :> NamedUser(FALSE, FALSE, q.name))
            /\ reqs' = [reqs EXCEPT ![r] =
                 [op |-> "signup", pc |-> "done", uid |-> q.uid,
                  response |-> Response(201, "Created")]]
    /\ UNCHANGED <<products, orders, sessions, txns, created, now, audit>>

\* update.js lines 48-98: session, validation of the body, the identity is
\* read by the session's id (the email is left as it was)
ProfileUpdateStart(r, s, body) ==
    /\ reqs[r].pc = "idle"
    /\ s \in sessions
    /\ reqs' = [reqs EXCEPT ![r] =
         IF body.name = ""
           THEN [op |-> "profile", pc |-> "done", uid |-> s.uid,
                 response |-> Response(400, "InvalidName")]
         ELSE IF s.uid \notin DOMAIN users
           THEN [op |-> "profile", pc |-> "done", uid |-> s.uid,
                 response |-> Response(404, "NotFound")]
         ELSE [op |-> "profile", pc |-> "save", uid |-> s.uid, name |-> body.name]]
    /\ UNCHANGED <<users, products, orders, sessions, txns, created, now, audit>>

\* update.js lines 100-116: name, email and password are the only paths
\* assigned, so the only ones save() writes
ProfileUpdateSave(r) ==
    /\ reqs[r].op = "profile" /\ reqs[r].pc = "save"
    /\ users' = [users EXCEPT ![reqs[r].uid].name = reqs[r].name]
    /\ reqs' = [reqs EXCEPT ![r] =
         [op |-> "profile", pc |-> "done", uid |-> reqs[r].uid,
          response |-> Response(200, "Updated")]]
    /\ UNCHANGED <<products, orders, sessions, txns, created, now, audit>>

\* a super-admin, a plain admin and a customer
RoleUsers == [u \in UserIds |->
    IF u = "u1" THEN NamedUser(TRUE, TRUE, "n0")
    ELSE IF u = "u2" THEN NamedUser(TRUE, FALSE, "n0")
    ELSE NamedUser(FALSE, FALSE, "n0")]

NewUserIds == {"u4"}

\* bodies of signup and profile update; a role flag smuggled in is a field
\* neither handler reads
ProfileBody(name, isAdmin) == [name |-> name, isAdmin |-> isAdmin]
ProfileBodies == {ProfileBody("n1", Bool(TRUE)), ProfileBody("", Undefined)}

RoleBodies ==
    { UpdateBody(Bool(TRUE), Undefined),
      UpdateBody(Undefined, Bool(TRUE)),
      UpdateBody(Bool(FALSE), Bool(FALSE)) }

InitRoles ==
    /\ users = RoleUsers
    /\ products = InitProducts
    /\ orders = InitOrders
    /\ sessions = {[uid |-> u, isAdmin |-> RoleUsers[u].isAdmin] : u \in UserIds}
    /\ reqs = [r \in ReqIds |-> IdleReq]
    /\ txns = [r \in ReqIds |-> NoTxn]
    /\ created = 0
    /\ now = 0
    /\ audit = {}

NextRoles ==
    \E r \in ReqIds :
        \/ \E s \in sessions, u \in {"u2", "u3"}, body \in RoleBodies :
               AdminUserStart(r, s, "PUT", ObjectId(u), body)
        \/ AdminUserTarget(r)
        \/ AdminUserCount(r)
        \/ AdminUserSave(r)
        \/ \E u \in NewUserIds \cup {"u3"}, body \in ProfileBodies : SignupStart(r, u, body)
        \/ SignupSave(r)
        \/ \E s \in sessions, body \in ProfileBodies : ProfileUpdateStart(r, s, body)
        \/ ProfileUpdateSave(r)

SpecRoles == InitRoles /\ [][NextRoles]_vars

----------------------------------------------------------------------------
(* Sessions, anti-forgery tokens and the admin catalog index route         *)
(* (src/pages/api/auth/[...nextauth].js, src/utils/csrf.js,                *)
(*  src/unnamed/part_001)                                                  *)

\* credentials sign-in: the jwt callback copies _id and isAdmin into the
\* token, where they stay until the token expires
SignIn(u) ==
    /\ ~users[u].isDeleted
    /\ sessions' = sessions \cup {Token(u)}
    /\ UNCHANGED <<users, products, orders, reqs, txns, created, now, audit>>

\* a request without a session cookie
NoSession == [uid |-> "none", isAdmin |-> FALSE]

csrfMaxAge == 1          \* 60 * 60 * 1000 ms
HexDigestLength == 64    \* sha256 digest in hex

\* the header value "timestamp:hash"; hash.of names the timestamp the hash
\* is the keyed hash of (-1: of nothing the server ever signed)
NoCsrfToken == [present |-> FALSE]
CsrfHeader(timestamp, of, len) ==
    [present |-> TRUE, timestamp |-> timestamp, hash |-> [of |-> of, len |-> len]]
generateCsrfToken(at) == CsrfHeader(at, at, HexDigestLength)

\* "true", "false", or "throws" (timingSafeEqual on buffers of unequal length)
verifyCsrfToken(token) ==
    IF ~token.present THEN "false"
    ELSE IF token.timestamp < 0 \/ token.hash.len = 0 THEN "false"
    ELSE IF token.hash.len # HexDigestLength THEN "throws"
    ELSE LET isValid == token.hash.of = token.timestamp
             age == now - token.timestamp
         IN IF isValid /\ age < csrfMaxAge THEN "true" ELSE "false"

\* part_001 lines 6-20: token check, then the session's isAdmin claim
AdminProductsStart(r, s, csrfToken, method) ==
    /\ reqs[r].pc = "idle"
    /\ s \in sessions \cup {NoSession}
    /\ LET reply(status, kind) ==
               [op |-> "adminProducts", pc |-> "done", uid |-> s.uid, method |-> method,
                response |-> Response(status, kind)]
           verified == verifyCsrfToken(csrfToken)
       IN reqs' = [reqs EXCEPT ![r] =
            IF verified = "throws" THEN reply(500, "Fault")
            ELSE IF verified = "false" THEN reply(403, "InvalidCsrf")
            ELSE IF s = NoSession \/ ~s.isAdmin THEN reply(401, "AdminSigninRequired")
            ELSE IF method = "GET"
              THEN [op |-> "adminProducts", pc |-> "find", uid |-> s.uid, method |-> method]
            ELSE IF method = "POST"
              THEN [op |-> "adminProducts", pc |-> "save", uid |-> s.uid, method |-> method]
            ELSE reply(400, "MethodNotAllowed")]
    /\ UNCHANGED <<users, products, orders, sessions, txns, created, now, audit>>

\* getHandler, lines 22-27
AdminProductsFind(r) ==
    /\ reqs[r].op = "adminProducts" /\ reqs[r].pc = "find"
    /\ reqs' = [reqs EXCEPT ![r] =
         [op |-> "adminProducts", pc |-> "done", uid |-> reqs[r].uid, method |-> "GET",
          response |-> Response(200, "List")]]
    /\ UNCHANGED <<users, products, orders, sessions, txns, created, now, audit>>

\* postHandler, lines 29-51: a sample catalog item is created
AdminProductsSave(r) ==
    /\ reqs[r].op = "adminProducts" /\ reqs[r].pc = "save"
    /\ created' = created + 1
    /\ reqs' = [reqs EXCEPT ![r] =
         [op |-> "adminProducts", pc |-> "done", uid |-> reqs[r].uid, method |-> "POST",
          response |-> Response(201, "Created")]]
    /\ UNCHANGED <<users, products, orders, sessions, txns, now, audit>>

CsrfSamples ==
    { NoCsrfToken,
      generateCsrfToken(0),
      CsrfHeader(0, -1, HexDigestLength),
      CsrfHeader(0, -1, 5) }

GateMethods == {"GET", "POST", "DELETE"}

GateRequest(r) ==
    \/ \E s \in sessions, u \in {"u2"}, body \in UpdateBodies :
           AdminUserStart(r, s, "PUT", ObjectId(u), body)
    \/ AdminUserTarget(r)
    \/ AdminUserCount(r)
    \/ AdminUserSave(r)
    \/ \E s \in sessions \cup {NoSession}, t \in CsrfSamples, m \in GateMethods :
           AdminProductsStart(r, s, t, m)
    \/ AdminProductsFind(r)
    \/ AdminProductsSave(r)

NextGate ==
    \/ \E r \in ReqIds : GateRequest(r)
    \/ \E u \in UserIds : SignIn(u)
    \/ Tick

SpecGate == InitAdmin /\ [][NextGate]_vars

\* GET /api/auth/csrf-token (src/pages/api/auth/update.js lines 139-144):
\* a token for the current time, whoever asks
CsrfTokenIssue(r, s) ==
    /\ reqs[r].pc = "idle"
    /\ s \in sessions \cup {NoSession}
    /\ reqs' = [reqs EXCEPT ![r] =
         [op |-> "csrfToken", pc |-> "done", uid |-> s.uid,
          response |-> [status |-> 200, kind |-> "CsrfToken",
                        csrfToken |-> generateCsrfToken(now)]]]
    /\ UNCHANGED <<users, products, orders, sessions, txns, created, now, audit>>

\* the tokens handed out so far
IssuedTokens ==
    {reqs[r].response.csrfToken : r \in {q \in ReqIds : reqs[q].op = "csrfToken"}}

CsrfMethods == {"GET", "POST"}

NextCsrf ==
    \/ \E r \in ReqIds :
        \/ \E s \in sessions \cup {NoSession} : CsrfTokenIssue(r, s)
        \/ \E s \in sessions, t \in IssuedTokens \cup {NoCsrfToken}, m \in CsrfMethods :
               AdminProductsStart(r, s, t, m)
        \/ AdminProductsFind(r)
        \/ AdminProductsSave(r)
    \/ Tick

SpecCsrf == InitAdmin /\ [][NextCsrf]_vars

----------------------------------------------------------------------------
(* Deliver order: PUT /api/admin/orders/[id]/deliver                       *)
(* (src/pages/api/admin/orders/[id]/deliver.js)                            *)

\* line 66: the address fields the deliver handler looks at
deliverAddressFields == {"fullName", "address", "city", "country"}

fastDeliveryWindow == 24      \* 24 * 60 * 60 * 1000 ms, in hours

\* auditLogger entries (src/utils/auditLogger.js)
UnauthorizedAccess(action, data) ==
    [level |-> "SECURITY", category |-> "unauthorized_access", action |-> action] @@ data
AdminAction(action, data) ==
    [level |-> "ADMIN", category |-> "admin_action", action |-> action] @@ data
SecurityViolation(type, data) ==
    [level |-> "CRITICAL", category |-> "security_violation", type |-> type] @@ data

\* order.isExpress, a flag checkout never sets
isExpress(order) == "isExpress" \in DOMAIN order /\ order.isExpress

\* lines 8-36: method, session, id shape, admin re-check against the store;
\* the x-csrf-token header of the request is never read
DeliverStart(r, s, id, csrfToken) ==
    /\ reqs[r].pc = "idle"
    /\ s \in sessions
    /\ LET reply(status, kind) ==
               [op |-> "deliver", pc |-> "done", uid |-> s.uid, id |-> id,
                csrfToken |-> csrfToken, response |-> Response(status, kind)]
           denied == s.uid \notin DOMAIN users \/ ~users[s.uid].isAdmin
       IN /\ reqs' = [reqs EXCEPT ![r] =
               IF ~isValidObjectId(id) THEN reply(400, "InvalidId")
               ELSE IF denied THEN reply(403, "Forbidden")
               ELSE [op |-> "deliver", pc |-> "find", uid |-> s.uid, id |-> id,
                     csrfToken |-> csrfToken]]
          /\ audit' = IF isValidObjectId(id) /\ denied
                      THEN audit \cup {UnauthorizedAccess("admin_delivery_access",
                                          [userId |-> s.uid, orderId |-> id.key])}
                      ELSE audit
    /\ UNCHANGED <<users, products, orders, sessions, txns, created, now>>

\* lines 44-84: the checks on the order read, in the handler's order
DeliverRejection(order) ==
    IF ~order.isPaid THEN "Unpaid"
    ELSE IF order.isDelivered THEN "AlreadyDelivered"
    ELSE IF order.status = "cancelled" THEN "Cancelled"
    ELSE IF ~(deliverAddressFields \subseteq order.shippingAddress) THEN "IncompleteAddress"
    ELSE IF now - order.createdAt < 0 THEN "BeforeOrderDate"
    ELSE "none"

\* no entry is written for a fast delivery
SuspiciousFastDelivery_Never(order) == FALSE

\* line 87: timeDiff < 24 h && !order.isExpress
SuspiciousFastDelivery(order) ==
    now - order.createdAt < fastDeliveryWindow /\ ~isExpress(order)

\* lines 38-108: the order is read and checked, a fast delivery is logged,
\* and the delivery fields are assigned on the document
DeliverFind(r) ==
    /\ reqs[r].op = "deliver" /\ reqs[r].pc = "find"
    /\ LET q == reqs[r]
           reply(status, kind) ==
               [op |-> "deliver", pc |-> "done", uid |-> q.uid, id |-> q.id,
                csrfToken |-> q.csrfToken, response |-> Response(status, kind)]
       IN IF ~OrderExists(q.id)
          THEN /\ reqs' = [reqs EXCEPT ![r] = reply(404, "NotFound")]
               /\ audit' = audit
          ELSE LET order == orders[q.id.key] IN
               IF DeliverRejection(order) # "none"
               THEN /\ reqs' = [reqs EXCEPT ![r] = reply(400, DeliverRejection(order))]
                    /\ audit' = audit
               ELSE /\ reqs' = [reqs EXCEPT ![r] =
                         [q EXCEPT !.pc = "save"] @@ [deliveredAt |-> now]]
                    /\ audit' = IF SuspiciousFastDelivery(order)
                                THEN audit \cup {SecurityViolation("suspicious_fast_delivery",
                                                    [orderId |-> q.id.key, adminId |-> q.uid])}
                                ELSE audit
    /\ UNCHANGED <<users, products, orders, sessions, txns, created, now>>

\* lines 104-124: order.save() writes the delivery fields and the status;
\* the admin action is logged and the request answered
DeliverSave(r) ==
    /\ reqs[r].op = "deliver" /\ reqs[r].pc = "save"
    /\ LET q == reqs[r] IN
       /\ orders' = [orders EXCEPT ![q.id.key] =
            [isDelivered |-> TRUE,
             deliveredAt |-> q.deliveredAt,
             deliveredBy |-> q.uid,
             deliveryNotes |-> "",        \* the requests carry no notes
             status |-> "delivered"] @@ @]
       /\ audit' = audit \cup {AdminAction("order_delivered",
                                  [adminId |-> q.uid, orderId |-> q.id.key])}
       /\ reqs' = [reqs EXCEPT ![r] =
            [op |-> "deliver", pc |-> "done", uid |-> q.uid, id |-> q.id,
             csrfToken |-> q.csrfToken,
             response |-> [status |-> 200, kind |-> "Delivered",
                           orderId |-> q.id.key, deliveredAt |-> q.deliveredAt]]]
    /\ UNCHANGED <<users, products, sessions, txns, created, now>>

\* an order as the pay route leaves it
PaidOrder(order, at) ==
    [isPaid |-> TRUE, paidAt |-> at, status |-> "paid",
     paymentResult |-> PaymentResult([id |-> "TXN-A", status |-> "COMPLETED",
                                      email_address |-> "payer@example.com"], order)] @@ order

\* orders of customer u3 the deliver route may be asked about:
\* 1 paid; 2 paid, address without postalCode; 3 unpaid; 4 paid, then
\* cancelled; 5 paid, address without city; 6 paid, expedited; 7 paid,
\* stamped one hour ahead of the delivering server's clock
DeliverOrders ==
    LET o == OrderOf("u3", "p2", Units(1))
        paid == PaidOrder(o, 0)
    IN << paid,
          [paid EXCEPT !.shippingAddress = @ \ {"postalCode"}],
          o,
          [paid EXCEPT !.status = "cancelled"],
          [paid EXCEPT !.shippingAddress = @ \ {"city"}],
          paid @@ [isExpress |-> TRUE],
          [paid EXCEPT !.createdAt = 1] >>

DeliverOrderIds == {ObjectId(k) : k \in 1..7}

InitDeliver ==
    /\ users = InitUsers
    /\ products = InitProducts
    /\ orders = DeliverOrders
    /\ sessions = {InitToken("u1"), InitToken("u3")}
    /\ reqs = [r \in ReqIds |-> IdleReq]
    /\ txns = [r \in ReqIds |-> NoTxn]
    /\ created = 0
    /\ now = 0
    /\ audit = {}

DeliverTokens == {NoCsrfToken, generateCsrfToken(0)}

NextDeliver ==
    \/ \E r \in ReqIds :
        \/ \E s \in sessions, id \in DeliverOrderIds, t \in DeliverTokens :
               DeliverStart(r, s, id, t)
        \/ DeliverFind(r)
        \/ DeliverSave(r)
    \/ Tick

SpecDeliver == InitDeliver /\ [][NextDeliver]_vars

\* the admin's deliver requests on the complete, paid orders: plain,
\* expedited, and stamped ahead of the clock
TimingOrderIds == {ObjectId(1), ObjectId(6), ObjectId(7)}

NextDeliverTiming ==
    \/ \E r \in ReqIds :
        \/ \E id \in TimingOrderIds :
               DeliverStart(r, InitToken("u1"), id, generateCsrfToken(0))
        \/ DeliverFind(r)
        \/ DeliverSave(r)
    \/ Tick

SpecDeliverTiming == InitDeliver /\ [][NextDeliverTiming]_vars

----------------------------------------------------------------------------
(* The life of an order: checkout, pay and deliver requests interleaved    *)

MaxOrders == 1        \* orders created in one run

LifecycleBodies == {PayBody("TXN-A", NoAmount), PayBody("TXN-B", NoAmount)}

\* customer u3 checks out and pays, admin u1 delivers; a slot is reused once
\* its request is answered
NextLifecycle ==
    \E r \in ReqIds :
        \/ /\ Len(orders) < MaxOrders
           /\ \A q \in ReqIds : reqs[q].op # "createOrder"
           /\ CreateOrderStart(r, InitToken("u3"), Body(<<Item("p1", Units(1))>>))
        \/ CreateOrderItem(r)
        \/ CreateOrderSave(r)
        \/ CreateOrderStockUpdate(r)
        \/ CreateOrderCommit(r)
        \/ \E body \in LifecycleBodies : PayStart(r, InitToken("u3"), ObjectId(1), body)
        \/ PayLoadOrder(r)
        \/ PayDuplicateCheck(r)
        \/ PaySave(r)
        \/ DeliverStart(r, InitToken("u1"), ObjectId(1), NoCsrfToken)
        \/ DeliverFind(r)
        \/ DeliverSave(r)
        \/ Release(r)

InitLifecycle ==
    /\ users = InitUsers
    /\ products = InitProducts
    /\ orders = <<>>
    /\ sessions = {InitToken("u1"), InitToken("u3")}
    /\ reqs = [r \in ReqIds |-> IdleReq]
    /\ txns = [r \in ReqIds |-> NoTxn]
    /\ created = 0
    /\ now = 0
    /\ audit = {}

SpecLifecycle == InitLifecycle /\ [][NextLifecycle]_vars

----------------------------------------------------------------------------
(* Admin catalog item: PUT and DELETE /api/admin/products/[id]             *)
(* (src/pages/api/admin/products/[id].js)                                  *)

maxProductNumber == 999999

\* req.body of an item update: price in mills, countInStock in whole units
ProductBody(price, countInStock) == [price |-> price, countInStock |-> countInStock]

\* Math.round(price * 100) / 100, on mills
RoundToCents(m) == ((m + 5) \div 10) * 10

\* lines 191-274: the fields of the body that are given and valid; "errors"
\* is the number of messages
validateProductUpdates(body) ==
    LET priceOk == ~isNaN(body.price) /\ body.price.value >= 0
                       /\ body.price.value <= Mills(maxProductNumber)
        stockOk == ~isNaN(body.countInStock) /\ body.countInStock.value >= 0
                       /\ body.countInStock.value <= maxProductNumber
        given(x) == x.kind # "undefined"
    IN [errors |-> (IF given(body.price) /\ ~priceOk THEN 1 ELSE 0)
                   + (IF given(body.countInStock) /\ ~stockOk THEN 1 ELSE 0),
        data |-> (IF given(body.price) /\ priceOk
                  THEN [price |-> RoundToCents(body.price.value)] ELSE << >>)
                 @@ (IF given(body.countInStock) /\ stockOk
                     THEN [countInStock |-> Units(body.countInStock.value)] ELSE << >>)]

\* lines 9-19: session and id shape
AdminProductStart(r, s, method, id, body) ==
    /\ reqs[r].pc = "idle"
    /\ s \in sessions
    /\ reqs' = [reqs EXCEPT ![r] =
         IF ~isValidObjectId(id)
         THEN [op |-> "adminProduct", pc |-> "done", uid |-> s.uid, method |-> method,
               id |-> id, response |-> Response(400, "InvalidId")]
         ELSE [op |-> "adminProduct", pc |-> "gate", uid |-> s.uid, method |-> method,
               id |-> id, body |-> body]]
    /\ UNCHANGED <<users, products, orders, sessions, txns, created, now, audit>>

\* lines 21-46: the admin flag is re-read from the store
AdminProductGate(r) ==
    /\ reqs[r].op = "adminProduct" /\ reqs[r].pc = "gate"
    /\ LET q == reqs[r]
           denied == q.uid \notin DOMAIN users \/ ~users[q.uid].isAdmin
       IN /\ reqs' = [reqs EXCEPT ![r] =
               IF denied
               THEN [op |-> "adminProduct", pc |-> "done", uid |-> q.uid,
                     method |-> q.method, id |-> q.id,
                     response |-> Response(403, "Forbidden")]
               ELSE IF q.method \notin {"PUT", "DELETE"}
               THEN [op |-> "adminProduct", pc |-> "done", uid |-> q.uid,
                     method |-> q.method, id |-> q.id,
                     response |-> Response(405, "MethodNotAllowed")]
               ELSE [q EXCEPT !.pc = "find"]]
          /\ audit' = IF denied
                      THEN audit \cup {UnauthorizedAccess("admin_product_access",
                              [userId |-> q.uid, productId |-> q.id.key, method |-> q.method])}
                      ELSE audit
    /\ UNCHANGED <<users, products, orders, sessions, txns, created, now>>

\* putHandler lines 140-172 and deleteHandler lines 78-98: the item is read
\* (no catalog item of the model is system critical); an update is validated
\* and assigned on the document
AdminProductFind(r) ==
    /\ reqs[r].op = "adminProduct" /\ reqs[r].pc = "find"
    /\ LET q == reqs[r]
           reply(status, kind) ==
               [op |-> "adminProduct", pc |-> "done", uid |-> q.uid, method |-> q.method,
                id |-> q.id, response |-> Response(status, kind)]
           validation == validateProductUpdates(q.body)
       IN reqs' = [reqs EXCEPT ![r] =
            IF q.id.key \notin DOMAIN products \/ products[q.id.key].isDeleted
            THEN reply(404, "NotFound")
            ELSE IF q.method = "DELETE" THEN [q EXCEPT !.pc = "count"]
            ELSE IF validation.errors > 0 THEN reply(400, "ValidationErrors")
            ELSE [q EXCEPT !.pc = "save"] @@ [data |-> validation.data]]
    /\ UNCHANGED <<users, products, orders, sessions, txns, created, now, audit>>

\* deleteHandler lines 100-124: paid, undelivered orders holding the item
\* block the delete; otherwise the soft delete is logged and assigned
AdminProductCount(r) ==
    /\ reqs[r].op = "adminProduct" /\ reqs[r].pc = "count"
    /\ LET q == reqs[r]
           active == {n \in 1..Len(orders) :
                        /\ \E k \in 1..Len(orders[n].orderItems) :
                               orders[n].orderItems[k]._id = q.id.key
                        /\ orders[n].isPaid /\ ~orders[n].isDelivered}
       IN IF active # {}
          THEN /\ reqs' = [reqs EXCEPT ![r] =
                    [op |-> "adminProduct", pc |-> "done", uid |-> q.uid,
                     method |-> q.method, id |-> q.id,
                     response |-> Response(400, "ActiveOrders")]]
               /\ audit' = audit
          ELSE /\ reqs' = [reqs EXCEPT ![r] =
                    [q EXCEPT !.pc = "save"] @@ [data |-> [isDeleted |-> TRUE]]]
               /\ audit' = audit \cup {AdminAction("product_delete",
                                          [adminId |-> q.uid, productId |-> q.id.key])}
    /\ UNCHANGED <<users, products, orders, sessions, txns, created, now>>

\* product.save(), lines 123 and 176: the assigned fields are written
AdminProductSave(r) ==
    /\ reqs[r].op = "adminProduct" /\ reqs[r].pc = "save"
    /\ LET q == reqs[r] IN
       /\ products' = [products EXCEPT ![q.id.key] = q.data @@ @]
       /\ audit' = IF q.method = "PUT"
                   THEN audit \cup {AdminAction("product_update",
                                       [adminId |-> q.uid, productId |-> q.id.key])}
                   ELSE audit
       /\ reqs' = [reqs EXCEPT ![r] =
            [op |-> "adminProduct", pc |-> "done", uid |-> q.uid, method |-> q.method,
             id |-> q.id,
             response |-> Response(200, IF q.method = "PUT" THEN "Updated" ELSE "Deleted")]]
    /\ UNCHANGED <<users, orders, sessions, txns, created, now>>

ProductBodies ==
    { ProductBody(Amount(Mills(20) + 4), NoAmount),
      ProductBody(NoAmount, Amount(5)),
      ProductBody(NoAmount, Amount(0 - 1)) }

CatalogMethods == {"PUT", "DELETE"}

\* admin u1 and customer u3 on the admin item route, customer u3 checking
\* out one unit of p1
NextCatalog ==
    \E r \in ReqIds :
        \/ \E s \in sessions, m \in CatalogMethods, body \in ProductBodies :
               AdminProductStart(r, s, m, ObjectId("p1"), body)
        \/ AdminProductGate(r)
        \/ AdminProductFind(r)
        \/ AdminProductCount(r)
        \/ AdminProductSave(r)
        \/ CreateOrderStart(r, InitToken("u3"), Body(<<Item("p1", Units(1))>>))
        \/ CreateOrderItem(r)
        \/ CreateOrderSave(r)
        \/ CreateOrderStockUpdate(r)
        \/ CreateOrderCommit(r)

SpecCatalog == InitLifecycle /\ [][NextCatalog]_vars

----------------------------------------------------------------------------
(* Admin authorization gate: SecurityMiddleware.validateAdminAccess       *)
(* (src/middleware/security.js)                                            *)

\* a session whose identity was removed from the store
RemovedUserSession == [uid |-> "u0", isAdmin |-> TRUE]

GateEndpoints == {"/api/admin/users", "/api/admin/products"}

\* lines 15-18: getSession; no session, or one without a user, is denied
validateAdminAccessStart(r, s, requireSuperAdmin, endpoint) ==
    /\ reqs[r].pc = "idle"
    /\ s \in sessions \cup {NoSession}
    /\ reqs' = [reqs EXCEPT ![r] =
         IF s = NoSession
         THEN [op |-> "validateAdminAccess", pc |-> "done", uid |-> s.uid,
               endpoint |-> endpoint, isValid |-> FALSE,
               response |-> Response(401, "AuthenticationRequired")]
         ELSE [op |-> "validateAdminAccess", pc |-> "find", uid |-> s.uid,
               endpoint |-> endpoint, requireSuperAdmin |-> requireSuperAdmin]]
    /\ UNCHANGED <<users, products, orders, sessions, txns, created, now, audit>>

\* lines 20-47: the identity is re-read and its role flags are checked
validateAdminAccessFind(r) ==
    /\ reqs[r].op = "validateAdminAccess" /\ reqs[r].pc = "find"
    /\ LET q == reqs[r]
           denied(status, kind) ==
               [op |-> "validateAdminAccess", pc |-> "done", uid |-> q.uid,
                endpoint |-> q.endpoint, isValid |-> FALSE,
                response |-> Response(status, kind)]
           entry(action) ==
               UnauthorizedAccess(action, [userId |-> q.uid, endpoint |-> q.endpoint])
       IN IF q.uid \notin DOMAIN users
          THEN /\ reqs' = [reqs EXCEPT ![r] = denied(401, "InvalidSession")]
               /\ audit' = audit
          ELSE IF ~users[q.uid].isAdmin
          THEN /\ reqs' = [reqs EXCEPT ![r] = denied(403, "AdminRequired")]
               /\ audit' = audit \cup {entry("non_admin_access_attempt")}
          ELSE IF q.requireSuperAdmin /\ ~users[q.uid].isSuperAdmin
          THEN /\ reqs' = [reqs EXCEPT ![r] = denied(403, "SuperAdminRequired")]
               /\ audit' = audit \cup {entry("non_super_admin_access_attempt")}
          ELSE /\ reqs' = [reqs EXCEPT ![r] =
                    [op |-> "validateAdminAccess", pc |-> "done", uid |-> q.uid,
                     endpoint |-> q.endpoint, isValid |-> TRUE,
                     response |-> Response(200, "Valid")]]
               /\ audit' = audit
    /\ UNCHANGED <<users, products, orders, sessions, txns, created, now>>

InitAccess ==
    /\ users = RoleUsers
    /\ products = InitProducts
    /\ orders = InitOrders
    /\ sessions = {[uid |-> u, isAdmin |-> RoleUsers[u].isAdmin] : u \in UserIds}
                     \cup {RemovedUserSession}
    /\ reqs = [r \in ReqIds |-> IdleReq]
    /\ txns = [r \in ReqIds |-> NoTxn]
    /\ created = 0
    /\ now = 0
    /\ audit = {}

NextAccess ==
    \E r \in ReqIds :
        \/ \E s \in sessions \cup {NoSession}, super \in BOOLEAN, e \in GateEndpoints :
               validateAdminAccessStart(r, s, super, e)
        \/ validateAdminAccessFind(r)

SpecAccess == InitAccess /\ [][NextAccess]_vars

----------------------------------------------------------------------------
(* Parameter validation: SecurityMiddleware.validateParameters            *)
(* (src/middleware/security.js)                                            *)

\* request values: absent, a number, or a string of a given length whose
\* parseFloat is num (NaN when nan)
Absent == [type |-> "undefined", len |-> 0, nan |-> TRUE, num |-> 0]
NumV(n) == [type |-> "number", len |-> 0, nan |-> FALSE, num |-> n]
StrV(len) == [type |-> "string", len |-> len, nan |-> TRUE, num |-> 0]
DigitStr(n) == [type |-> "string", len |-> 1, nan |-> FALSE, num |-> n]

\* JavaScript truthiness of a value
Truthy(v) ==
    \/ v.type = "number" /\ v.num # 0
    \/ v.type = "string" /\ v.len > 0

\* a rule record; minLength / maxLength 0 and hasMin / hasMax FALSE stand
\* for a rule that is not given
Rules(required, type, minLength, maxLength, hasMin, min, hasMax, max) ==
    [required |-> required, type |-> type, minLength |-> minLength,
     maxLength |-> maxLength, hasMin |-> hasMin, min |-> min,
     hasMax |-> hasMax, max |-> max]

Message(field, rule) == [field |-> field, rule |-> rule]

\* lines 68-91: the rules applied to a value that is neither undefined nor
\* null, each on its own
ValueErrors(field, rules, value) ==
    LET add(cond, rule) == IF cond THEN <<Message(field, rule)>> ELSE <<>>
    IN add(rules.type # "none" /\ value.type # rules.type, "type")
       \o add(rules.minLength # 0 /\ value.type = "string"
                /\ value.len < rules.minLength, "minLength")
       \o add(rules.maxLength # 0 /\ value.type = "string"
                /\ value.len > rules.maxLength, "maxLength")
       \o add(rules.hasMin /\ ~value.nan /\ value.num < rules.min, "min")
       \o add(rules.hasMax /\ ~value.nan /\ value.num > rules.max, "max")

\* lines 61-92: one pass of the loop; value = req.body[field] || req.query[field]
FieldErrors(field, rules, bodyValue, queryValue) ==
    LET value == IF Truthy(bodyValue) THEN bodyValue ELSE queryValue
    IN IF rules.required /\ ~Truthy(value) /\ ~(value.type = "number" /\ value.num = 0)
       THEN <<Message(field, "required")>>
       ELSE IF value.type # "undefined"
       THEN ValueErrors(field, rules, value)
       ELSE <<>>

ValidatedFields == <<"name", "quantity">>

\* lines 57-98
validateParameters(body, query, validationRules) ==
    LET errors == FieldErrors("name", validationRules.name, body.name, query.name)
                  \o FieldErrors("quantity", validationRules.quantity,
                                 body.quantity, query.quantity)
    IN [isValid |-> Len(errors) = 0, errors |-> errors]

\* a caller's validation of one request
ValidateRequest(r, body, query, validationRules) ==
    /\ reqs[r].pc = "idle"
    /\ reqs' = [reqs EXCEPT ![r] =
         [op |-> "validateParameters", pc |-> "done",
          body |-> body, query |-> query, validationRules |-> validationRules,
          result |-> validateParameters(body, query, validationRules)]]
    /\ UNCHANGED <<users, products, orders, sessions, txns, created, now, audit>>

NameValues == {Absent, StrV(0), StrV(2), StrV(5)}
QuantityValues == {Absent, NumV(0), NumV(1), NumV(7), DigitStr(1)}
QueryValues == {Absent, StrV(2)}

RuleSets ==
    { [name |-> Rules(TRUE, "string", 3, 4, FALSE, 0, FALSE, 0),
       quantity |-> Rules(TRUE, "number", 0, 0, TRUE, 0, TRUE, 5)],
      [name |-> Rules(FALSE, "string", 3, 0, FALSE, 0, FALSE, 0),
       quantity |-> Rules(FALSE, "number", 0, 0, TRUE, 1, TRUE, 5)] }

NextValidate ==
    \E b1 \in NameValues, b2 \in QuantityValues, q1, q2 \in QueryValues, rs \in RuleSets :
        ValidateRequest(1, [name |-> b1, quantity |-> b2],
                           [name |-> q1, quantity |-> q2], rs)

SpecValidate == InitAccess /\ [][NextValidate]_vars

----------------------------------------------------------------------------
(* Claims about payment and order fetch *)

PaidOrders == {n \in 1..Len(orders) : orders[n].paymentResult.set}

\* C2: in every reachable state no two distinct orders carry the same
\* paymentResult.id.
C2_UniquePaymentId ==
    \A m, n \in PaidOrders :
        orders[m].paymentResult.id = orders[n].paymentResult.id => m = n

\* the step of pay request r that reads the order and validates the payload
PayValidationStep(r) ==
    /\ reqs[r].op = "pay" /\ reqs[r].pc = "load"
    /\ reqs'[r] # reqs[r]

Rejected(q) == q.pc = "done" /\ q.response.status \in {400, 404}

\* C7: a pay request whose numeric amount differs from the stored
\* totalPrice by more than 0.01 is answered with a rejection at the
\* validation step, and that step leaves every order as it was.
C7_AmountMismatchRejected ==
    [][\A r \in ReqIds :
        ( /\ PayValidationStep(r)
          /\ OrderExists(reqs[r].id)
          /\ reqs[r].body.amount.kind = "number"
          /\ Abs(reqs[r].body.amount.value - orders[reqs[r].id.key].totalPrice) > Cents(1) )
        => (Rejected(reqs'[r]) /\ orders' = orders)]_vars

\* the owner's payment of 229.985 for the order of 230.00 was refused for
\* the amount alone and the order is still unpaid
C7_Witness ==
    \E r \in ReqIds :
        /\ reqs[r].op = "pay" /\ reqs[r].pc = "done"
        /\ reqs[r].id = ObjectId(1) /\ reqs[r].uid = orders[1].user
        /\ reqs[r].body.amount = Amount(Mills(230) - Cents(1) - 5)
        /\ reqs[r].response.kind = "ValidationError"
        /\ reqs[r].response.errors = <<"Payment amount mismatch">>
        /\ ~orders[1].isPaid
        /\ orders[1].totalPrice = Mills(230)

\* C8: for the order whose totalPrice is 230.00, a pay request with amount
\* 229.99 is rejected and one with amount 230.00 is not refused by the
\* payload validation.
C8_ExampleAmounts ==
    \A r \in ReqIds :
        ( /\ reqs[r].op = "pay" /\ reqs[r].pc = "done"
          /\ reqs[r].id = ObjectId(1) /\ reqs[r].uid = orders[1].user
          /\ orders[1].totalPrice = Mills(230) )
        => /\ reqs[r].body.amount = Amount(Mills(230) - Cents(1))
                => reqs[r].response.status # 200
           /\ reqs[r].body.amount = Amount(Mills(230))
                => reqs[r].response.kind # "ValidationError"

\* C9: when a fetch is answered, a caller who is neither the owner nor an
\* admin gets 404 without the order, and an admin gets 200 with the order,
\* its payer identity and its payment result.
C9_FetchVisibility ==
    [][\A r \in ReqIds :
        ( /\ reqs[r].op = "getOrder" /\ reqs[r].pc = "find"
          /\ reqs'[r].pc = "done"
          /\ OrderExists(reqs[r].id) )
        => LET o == orders[reqs[r].id.key]
               uid == reqs[r].uid
               resp == reqs'[r].response
           IN /\ (uid # o.user /\ ~users[uid].isAdmin)
                   => (resp.status = 404 /\ "order" \notin DOMAIN resp)
              /\ users[uid].isAdmin
                   => /\ resp.status = 200
                      /\ resp.order.user._id = o.user
                      /\ resp.order.paymentResult = o.paymentResult
                      /\ resp.order.totalPrice = o.totalPrice]_vars

\* customer u2 was answered 404 for u3's order while admin u1 received it,
\* paid, with payer and payment result
C9_Witness ==
    \E r1, r2 \in ReqIds :
        /\ reqs[r1].op = "getOrder" /\ reqs[r1].pc = "done"
        /\ reqs[r1].uid = "u2" /\ reqs[r1].id = ObjectId(1)
        /\ reqs[r1].response.status = 404
        /\ reqs[r2].op = "getOrder" /\ reqs[r2].pc = "done"
        /\ reqs[r2].uid = "u1" /\ reqs[r2].id = ObjectId(1)
        /\ reqs[r2].response.status = 200
        /\ reqs[r2].response.order.user._id = "u3"
        /\ reqs[r2].response.order.paymentResult.set

\* C10: a pay request by anyone but the order's owner, an admin included,
\* never gets past the ownership query: it is answered 404, and every
\* settled order was settled by a request of its owner.
C10_OnlyOwnerSettles ==
    \A r \in ReqIds :
        (reqs[r].op = "pay" /\ OrderExists(reqs[r].id))
        => /\ orders[reqs[r].id.key].user # reqs[r].uid
                => \/ reqs[r].pc = "load"
                   \/ reqs[r].pc = "done" /\ reqs[r].response.status = 404
           /\ (reqs[r].pc = "done" /\ reqs[r].response.status = 200)
                => orders[reqs[r].id.key].user = reqs[r].uid

\* admin u1 asked to settle u3's order and was answered 404; the order is unpaid
C10_Witness ==
    \E r \in ReqIds :
        /\ reqs[r].op = "pay" /\ reqs[r].pc = "done"
        /\ reqs[r].uid = "u1" /\ users["u1"].isAdmin
        /\ reqs[r].id = ObjectId(1) /\ orders[1].user = "u3"
        /\ reqs[r].response.status = 404
        /\ ~orders[1].isPaid

\* C16: a pay request that reaches the order-state checks is refused as
\* already paid when the order is paid, as cancelled when its status is
\* cancelled, and as expired when it was created more than 24 hours ago;
\* the three refusals differ and the step leaves every order as it was.
C16_PayPreconditions ==
    [][\A r \in ReqIds :
        (PayValidationStep(r) /\ OrderExists(reqs[r].id)
         /\ orders[reqs[r].id.key].user = reqs[r].uid)
        => LET o == orders[reqs[r].id.key]
               expired == now - o.createdAt > 24
               refused(kind) == /\ reqs'[r].pc = "done"
                                /\ reqs'[r].response = Response(400, kind)
                                /\ orders' = orders
           IN /\ o.isPaid => refused("AlreadyPaid")
              /\ (~o.isPaid /\ o.status = "cancelled") => refused("Cancelled")
              /\ (~o.isPaid /\ o.status # "cancelled" /\ expired) => refused("Expired")]_vars

\* at hour 25 the owner's payment of the pending order was refused as
\* expired and that of the cancelled order as cancelled; both are unpaid
C16_Witness ==
    /\ now = 25
    /\ orders = StateOrders
    /\ \E r1, r2 \in ReqIds :
          /\ reqs[r1].op = "pay" /\ reqs[r1].pc = "done" /\ reqs[r1].id = ObjectId(1)
          /\ reqs[r1].response = Response(400, "Expired")
          /\ reqs[r2].op = "pay" /\ reqs[r2].pc = "done" /\ reqs[r2].id = ObjectId(2)
          /\ reqs[r2].response = Response(400, "Cancelled")

SettledFields == {"isPaid", "paidAt", "status", "paymentResult"}

\* C17: the save of a successful pay request sets isPaid, paidAt, status =
\* paid and paymentResult on its order, records the order's stored
\* totalPrice as paymentResult.amount whatever amount the request carried,
\* and changes no other field of that order and no other order.
C17_PayFrame ==
    [][\A r \in ReqIds :
        (/\ reqs[r].op = "pay" /\ reqs[r].pc = "save"
         /\ reqs'[r].pc = "done" /\ reqs'[r].response.status = 200)
        => LET k == reqs[r].id.key IN
           /\ orders'[k].isPaid
           /\ orders'[k].paidAt = now
           /\ orders'[k].status = "paid"
           /\ orders'[k].paymentResult.set
           /\ orders'[k].paymentResult.amount = orders[k].totalPrice
           /\ \A f \in DOMAIN orders[k] \ SettledFields : orders'[k][f] = orders[k][f]
           /\ \A n \in 1..Len(orders) : n # k => orders'[n] = orders[n]
           /\ Len(orders') = Len(orders)]_vars

\* the order of 230.00 was settled by a request that carried 229.99, and
\* the recorded amount is 230.00
C17_Witness ==
    \E r \in ReqIds :
        /\ reqs[r].op = "pay" /\ reqs[r].pc = "done" /\ reqs[r].response.status = 200
        /\ reqs[r].id = ObjectId(1)
        /\ reqs[r].body.amount = Amount(Mills(230) - Cents(1))
        /\ orders[1].isPaid /\ orders[1].status = "paid"
        /\ orders[1].paymentResult.amount = Mills(230)
        /\ orders[1].orderItems = InitOrders[1].orderItems

----------------------------------------------------------------------------
(* Claims about the admin identity routes and the authorization gate *)

SoleSuperAdmin(u) ==
    /\ users[u].isSuperAdmin /\ ~users[u].isDeleted
    /\ superAdminCount = 1

C5_GateReadsStore ==
    [][\A r \in ReqIds :
        (/\ reqs[r].pc = "idle"
         /\ reqs'[r].op \in {"adminUser", "adminProducts"}
         /\ reqs'[r].uid \in DOMAIN users
         /\ ~users[reqs'[r].uid].isAdmin)
        => /\ reqs'[r].pc = "done"
           /\ reqs'[r].response.status \in {401, 403, 500}]_vars

\* C13: a step changes an identity's isAdmin or isSuperAdmin flag only as
\* the save of an identity-update request whose actor was read from the
\* store as a super-admin; signup, profile update and updates by a plain
\* admin change no role flag.
C13_RoleChangeBySuperAdminOnly ==
    [][\A u \in DOMAIN users :
        (\/ users'[u].isAdmin # users[u].isAdmin
         \/ users'[u].isSuperAdmin # users[u].isSuperAdmin)
        => \E r \in ReqIds :
             /\ reqs[r].op = "adminUser" /\ reqs[r].method = "PUT"
             /\ reqs[r].pc = "save" /\ reqs'[r].pc = "done"
             /\ reqs[r].id.key = u
             /\ reqs[r].requestingAdmin.isSuperAdmin]_vars

\* plain admin u2 was refused a role change, a signup and a profile update
\* carrying isAdmin went through, and their identities hold no admin flag
C13_Witness ==
    /\ \E r \in ReqIds :
          /\ reqs[r].op = "adminUser" /\ reqs[r].pc = "done"
          /\ reqs[r].uid = "u2" /\ reqs[r].id.key = "u3"
          /\ reqs[r].body.isAdmin = Bool(TRUE)
          /\ reqs[r].response = Response(403, "Forbidden")
    /\ \E r \in ReqIds :
          /\ reqs[r].op = "signup" /\ reqs[r].pc = "done"
          /\ reqs[r].response.status = 201
          /\ ~users[reqs[r].uid].isAdmin
    /\ ~users["u3"].isAdmin /\ ~users["u3"].isSuperAdmin

OwnsActiveOrder(u) ==
    \E n \in 1..Len(orders) :
        orders[n].user = u /\ orders[n].isPaid /\ ~orders[n].isDelivered

\* C15: a delete request that reaches its checks while the target owns an
\* order with isPaid = true and isDelivered = false never gets to the
\* soft delete: it is answered with a rejection and the identity stays as
\* it was.
C15_ActiveOrdersBlockDelete ==
    [][\A r \in ReqIds :
        LET q == reqs[r] IN
        (/\ q.op = "adminUser" /\ q.method = "DELETE"
         /\ q.pc \in {"target", "count", "orders"}
         /\ reqs'[r] # q
         /\ OwnsActiveOrder(q.id.key))
        => /\ users' = users
           /\ reqs'[r].pc # "save"
           /\ q.pc = "orders" => /\ reqs'[r].pc = "done"
                                  /\ reqs'[r].response.status = 400]_vars

\* the delete of customer u3, who holds a paid undelivered order, was
\* refused for the active order and u3 is still there
C15_Witness ==
    \E r \in ReqIds :
        /\ reqs[r].op = "adminUser" /\ reqs[r].pc = "done"
        /\ reqs[r].method = "DELETE" /\ reqs[r].id.key = "u3"
        /\ reqs[r].response = Response(400, "ActiveOrders")
        /\ OwnsActiveOrder("u3")
        /\ ~users["u3"].isDeleted

----------------------------------------------------------------------------
(* Claims about order delivery *)

DeliverCheckStep(r) ==
    /\ reqs[r].op = "deliver" /\ reqs[r].pc = "find"
    /\ reqs'[r] # reqs[r]
    /\ OrderExists(reqs[r].id)

\* paid, not delivered, not cancelled, every address field checkout requires
DeliverEligible(order) ==
    /\ order.isPaid
    /\ ~order.isDelivered
    /\ order.status # "cancelled"
    /\ requiredAddressFields \subseteq order.shippingAddress

C19_FastDeliveryFlagged ==
    [][\A r \in ReqIds :
        /\ (DeliverCheckStep(r) /\ DeliverEligible(orders[reqs[r].id.key]))
           => LET o == orders[reqs[r].id.key]
                  age == now - o.createdAt
              IN /\ age < 0 => /\ reqs'[r].pc = "done"
                               /\ reqs'[r].response.status = 400
                               /\ orders' = orders
                 /\ age >= 0 => reqs'[r].pc = "save"
                 /\ (age >= 0 /\ age < 24 /\ ~isExpress(o))
                    => \E e \in audit' :
                          /\ e.level = "CRITICAL"
                          /\ e.category = "security_violation"
                          /\ e.type = "suspicious_fast_delivery"
                          /\ e.orderId = reqs[r].id.key
        /\ (reqs[r].op = "deliver" /\ reqs[r].pc = "save" /\ reqs'[r] # reqs[r])
           => /\ reqs'[r].pc = "done"
              /\ reqs'[r].response.status = 200
              /\ orders'[reqs[r].id.key].isDelivered
              /\ orders'[reqs[r].id.key].status = "delivered"]_vars

\* order 1, created at hour 0 and not expedited, was delivered at hour 1
\* and the audit log holds the fast-delivery entry for it
C19_Witness ==
    /\ orders[1].isDelivered
    /\ orders[1].deliveredAt = 1
    /\ ~isExpress(orders[1])
    /\ \E r \in ReqIds :
          /\ reqs[r].op = "deliver" /\ reqs[r].pc = "done"
          /\ reqs[r].id = ObjectId(1) /\ reqs[r].response.status = 200
    /\ \E e \in audit : e.category = "security_violation" /\ e.orderId = 1

\* C20: a deliver request that carries no anti-forgery token gets no
\* further than the entry of the handler: it is answered with an error
\* status and never reaches the order lookup or the save.
C20_DeliverNeedsCsrfToken ==
    \A r \in ReqIds :
        (reqs[r].op = "deliver" /\ reqs[r].csrfToken = NoCsrfToken)
        => /\ reqs[r].pc = "done"
           /\ reqs[r].response.status >= 400

----------------------------------------------------------------------------
(* Claims about the anti-forgery token *)

\* the token is the one generateCsrfToken produced at its timestamp
Genuine(token) ==
    /\ token.present
    /\ token.timestamp >= 0
    /\ token.hash = [of |-> token.timestamp, len |-> HexDigestLength]

\* C21: verifyCsrfToken answers false for an absent token, for a token whose
\* hash part is not the keyed hash of its timestamp, whatever the length of
\* that part, and for a token aged one hour or more; it answers true for a
\* token generateCsrfToken produced less than one hour ago; it never throws.
C21_VerifyAnswers ==
    \A t \in CsrfSamples :
        verifyCsrfToken(t) =
            IF Genuine(t) /\ now - t.timestamp < csrfMaxAge THEN "true" ELSE "false"

\* C22: a token issued by the csrf-token endpoint to one session does not
\* verify on a request made under another session (verifyCsrfToken is
\* given the token only, so its answer is the same under every session).
C22_TokenBoundToSession ==
    \A r \in ReqIds :
        reqs[r].op = "csrfToken"
        => \A s \in sessions :
              s.uid # reqs[r].uid
              => verifyCsrfToken(reqs[r].response.csrfToken) # "true"

----------------------------------------------------------------------------
(* Claims about the admin authorization gate *)

\* C23: when the gate denies a request (no session, identity gone, admin
\* role missing, super-admin role missing), the audit log holds an
\* unauthorized-access entry with the actor id and the endpoint of that
\* request, and the denial step added at most one entry.
C23_DenialsAudited ==
    [][\A r \in ReqIds :
        (/\ reqs[r].pc # "done" /\ reqs'[r].pc = "done"
         /\ reqs'[r].op = "validateAdminAccess" /\ ~reqs'[r].isValid)
        => /\ \E e \in audit' :
                /\ e.category = "unauthorized_access"
                /\ e.userId = reqs'[r].uid
                /\ e.endpoint = reqs'[r].endpoint
           /\ Cardinality(audit' \ audit) <= 1]_vars

----------------------------------------------------------------------------
(* Claims about parameter validation *)

\* the value a request supplies for a field: the body's, else the query's
Supplied(bodyValue, queryValue) ==
    IF bodyValue.type # "undefined" THEN bodyValue ELSE queryValue

\* the rules of a field the supplied value violates: required when nothing
\* or an empty string is supplied, otherwise each of the other rules
ViolatedRules(rules, value) ==
    IF value.type = "undefined" \/ (value.type = "string" /\ value.len = 0)
    THEN IF rules.required THEN {"required"} ELSE {}
    ELSE {rule \in {"type", "minLength", "maxLength", "min", "max"} :
            \/ rule = "type" /\ rules.type # "none" /\ value.type # rules.type
            \/ rule = "minLength" /\ rules.minLength # 0 /\ value.type = "string"
                                  /\ value.len < rules.minLength
            \/ rule = "maxLength" /\ rules.maxLength # 0 /\ value.type = "string"
                                  /\ value.len > rules.maxLength
            \/ rule = "min" /\ rules.hasMin /\ ~value.nan /\ value.num < rules.min
            \/ rule = "max" /\ rules.hasMax /\ ~value.nan /\ value.num > rules.max}

\* C24: the error list validateParameters returns holds exactly one message
\* for each violated rule of each field, and isValid is true exactly when
\* the list is empty.
C24_AllViolationsReported ==
    \A r \in ReqIds :
        reqs[r].op = "validateParameters"
        => LET q == reqs[r]
               errors == q.result.errors
               violated == UNION {
                   {Message(ValidatedFields[i], rule) :
                       rule \in ViolatedRules(q.validationRules[ValidatedFields[i]],
                                    Supplied(q.body[ValidatedFields[i]],
                                             q.query[ValidatedFields[i]]))} :
                   i \in 1..Len(ValidatedFields)}
           IN /\ {errors[i] : i \in 1..Len(errors)} = violated
              /\ Len(errors) = Cardinality(violated)
              /\ q.result.isValid <=> (Len(errors) = 0)

----------------------------------------------------------------------------
(* Claims about the life of an order *)

\* C25: in every state each order's booleans mirror its status: pending
\* means not paid and not delivered, paid means paid and not delivered,
\* delivered means paid and delivered.
C25_BooleansMirrorStatus ==
    \A n \in 1..Len(orders) :
        /\ orders[n].status = "pending" => ~orders[n].isPaid /\ ~orders[n].isDelivered
        /\ orders[n].status = "paid" => orders[n].isPaid /\ ~orders[n].isDelivered
        /\ orders[n].status = "delivered" => orders[n].isPaid /\ orders[n].isDelivered

StatusRank(status) ==
    IF status = "pending" THEN 0 ELSE IF status = "paid" THEN 1 ELSE 2

\* C26: no step removes an order or moves an order's status backwards along
\* pending, paid, delivered; an order becomes delivered only when it is
\* paid.
C26_StatusMovesForward ==
    [][/\ Len(orders') >= Len(orders)
       /\ \A n \in 1..Len(orders) :
            /\ StatusRank(orders'[n].status) >= StatusRank(orders[n].status)
            /\ (orders'[n].status = "delivered" /\ orders[n].status # "delivered")
               => orders[n].isPaid]_vars

\* C29: a pay request is answered 200 only for an order that is unpaid when
\* its save is written, and once an order's paymentResult is recorded no
\* step changes it.
C29_SettledOnce ==
    [][/\ \A r \in ReqIds :
            (/\ reqs[r].op = "pay" /\ reqs[r].pc = "save"
             /\ reqs'[r].pc = "done" /\ reqs'[r].response.status = 200)
            => ~orders[reqs[r].id.key].isPaid
       /\ \A n \in 1..Len(orders) :
            orders[n].paymentResult.set
            => orders'[n].paymentResult = orders[n].paymentResult]_vars

----------------------------------------------------------------------------
(* Claims about the catalog *)

\* C27: a step that changes the stock count of a catalog item is the commit
\* of a create-order transaction.
C27_StockOnlyByCheckout ==
    [][(\E p \in ProductIds : products'[p].countInStock # products[p].countInStock)
        => \E r \in ReqIds :
              /\ reqs[r].op = "createOrder" /\ txns[r].open
              /\ reqs'[r].pc = "done" /\ reqs'[r].response.status = 201]_vars

----------------------------------------------------------------------------
(* Claims about checkout rejections *)

\* C28: a create-order request goes past the structural checks only with 1
\* to 50 items, a complete address and an allowed payment method; an item
\* entry with a quantity outside 1-100, a missing or soft-deleted item or
\* too little stock ends the request with 400 or 404; every 400 or 404
\* answer is given with no transaction open and leaves orders and stock
\* unchanged; a transaction opens only after every entry has passed.
C28_RejectedBeforeTransaction ==
    [][\A r \in ReqIds :
        /\ (reqs[r].pc = "idle" /\ reqs'[r].op = "createOrder" /\ reqs'[r].pc # "done")
           => /\ Len(reqs'[r].orderItems) \in 1..MaxOrderItems
              /\ requiredAddressFields \subseteq reqs'[r].shippingAddress
              /\ reqs'[r].paymentMethod \in allowedPaymentMethods
        /\ (reqs[r].op = "createOrder" /\ reqs[r].pc = "items" /\ reqs'[r] # reqs[r])
           => LET item == reqs[r].orderItems[reqs[r].i]
                  badQuantity == item.quantity < Units(1) \/ item.quantity > Units(100)
                  missing == \/ item._id.key \notin DOMAIN products
                             \/ products[item._id.key].isDeleted
                  short == ~missing /\ products[item._id.key].countInStock < item.quantity
              IN (badQuantity \/ missing \/ short)
                 => /\ reqs'[r].pc = "done"
                    /\ reqs'[r].response.status \in {400, 404}
        /\ (reqs[r].pc # "done" /\ reqs'[r].pc = "done" /\ reqs'[r].op = "createOrder"
            /\ reqs'[r].response.status \in {400, 404})
           => /\ ~txns[r].open /\ ~txns'[r].open
              /\ orders' = orders
              /\ products' = products
        /\ (~txns[r].open /\ txns'[r].open)
           => /\ reqs[r].op = "createOrder" /\ reqs[r].pc = "save"
              /\ reqs[r].i = Len(reqs[r].orderItems) + 1]_vars

\* a request was refused for too little stock after the one order the stock
\* allows was created, and only that order exists
C28_Witness ==
    /\ Len(orders) = 1
    /\ products["p1"].countInStock = 0
    /\ \E r \in ReqIds :
          /\ reqs[r].op = "createOrder" /\ reqs[r].pc = "done"
          /\ reqs[r].response = Response(400, "InsufficientStock")

----------------------------------------------------------------------------
(* Claims about deleted identities *)

\* C30: a request that arrives under the session of a soft-deleted identity
\* is answered 401 or 403 by the identity re-check at its entry, so it
\* reaches no step that reads or writes the stores.
C30_DeletedIdentityDenied ==
    [][\A r \in ReqIds :
        (/\ reqs[r].pc = "idle" /\ reqs'[r].pc # "idle"
         /\ reqs'[r].uid \in DOMAIN users
         /\ users[reqs'[r].uid].isDeleted)
        => /\ reqs'[r].pc = "done"
           /\ reqs'[r].response.status \in {401, 403}]_vars

============================================================================
